---- MODULE Spec2Model ----
(***************************************************************************)
(* A model of the osu!standard pp+ difficulty and performance core         *)
(* (rosu-ppplus-csr): hit objects -> difficulty objects -> skills ->       *)
(* difficulty attributes -> performance attributes.                        *)
(*                                                                         *)
(* Number representation.                                                  *)
(*  - Times are exact, in tenths of a millisecond.  The                    *)
(*    inputs are chosen on a grid on which every division of the modelled  *)
(*    code is exact.  f64::INFINITY is the value Infinity.                 *)
(*  - Counts (n300, misses, max_combo, ...) are integers; the effective    *)
(*    miss count is an exact rational <<numerator, denominator>>.          *)
(*  - An f64 whose magnitude needs powf, ln, tanh or an inverse CDF        *)
(*    (strains, ratings, pp values, weights) is tracked by its sign:       *)
(*    -1, 0, 1, and 2 for NaN.  Every operator on signs is the sign of the *)
(*    f64 operation on reals: the magnitudes are taken to be ones at which *)
(*    no product or power underflows to 0 or overflows.                    *)
(***************************************************************************)
EXTENDS Integers, Sequences, FiniteSets, TLC

VARIABLES
    osu_objects,               \* the hit objects of the map (Box<[OsuObject]>)
    mods,                      \* GameMods, a set of acronyms
    clock_rate,                \* Difficulty::get_clock_rate, <<num, den>>
    take,                      \* Difficulty::get_passed_objects
    lazer,                     \* Difficulty::get_lazer
    od_great,                  \* map_attrs.hit_windows.od_great, tenths of ms
    attrs,                     \* OsuDifficultyAttributes
    diff_objects,              \* Vec<OsuDifficultyObject>
    skills,                    \* OsuSkills
    processed,                 \* difficulty objects the skills have processed
    state,                     \* OsuScoreState
    using_classic_slider_acc,  \* OsuPerformanceCalculator field
    perf,                      \* OsuPerformanceAttributes, the result
    pc                         \* "start", "process", "evaluated", "done"

vars == <<osu_objects, mods, clock_rate, take, lazer, od_great, attrs,
          diff_objects, skills, processed, state, using_classic_slider_acc,
          perf, pc>>

(***************************************************************************)
(* Bounds of the model.                                                    *)
(***************************************************************************)
\* total_hits of a score state is at most MaxHits
MaxHits == 2
\* max_combo of the attributes and of the score state is at most MaxCombo
MaxCombo == 3

(***************************************************************************)
(* Arithmetic helpers.                                                     *)
(***************************************************************************)
Abs(x) == IF x < 0 THEN -x ELSE x
Max(a, b) == IF a >= b THEN a ELSE b
Min(a, b) == IF a <= b THEN a ELSE b

RECURSIVE Gcd(_, _)
Gcd(a, b) == IF b = 0 THEN a ELSE Gcd(b, a % b)

\* exact rationals in lowest terms, denominator > 0
Rat(n, d) == LET g == Gcd(Abs(n), d) IN <<n \div g, d \div g>>
RatInt(n) == <<n, 1>>
RatAdd(a, b) == Rat(a[1] * b[2] + b[1] * a[2], a[2] * b[2])
RatMulInt(a, k) == Rat(a[1] * k, a[2])
RatDivInt(a, k) == Rat(a[1], a[2] * k)
RatLt(a, b) == a[1] * b[2] < b[1] * a[2]
RatLe(a, b) == a[1] * b[2] <= b[1] * a[2]
\* f64::min and f64::max on two numbers
RatMin(a, b) == IF RatLt(b, a) THEN b ELSE a
RatMax(a, b) == IF RatLt(a, b) THEN b ELSE a

\* signs of f64 values: -1, 0, 1, and NaN
NaN == 2
SgnOf(n) == IF n > 0 THEN 1 ELSE IF n < 0 THEN -1 ELSE 0
SgnMul(a, b) == IF a = NaN \/ b = NaN THEN NaN ELSE a * b
\* the sign of a sum; a sum of a positive and a negative number is not
\* decided by the signs and does not occur for the non-negative ratings
SgnAdd(a, b) ==
    IF a = NaN \/ b = NaN THEN NaN
    ELSE IF a = 0 THEN b
    ELSE IF b = 0 THEN a
    ELSE IF a = b THEN a
    ELSE NaN
\* f64::max returns the other operand when one is NaN
SgnMax(a, b) ==
    IF a = NaN THEN b ELSE IF b = NaN THEN a ELSE Max(a, b)
\* powf with a positive non-integer exponent (1.1, 1/1.1)
SgnPowf(a) == IF a = NaN \/ a < 0 THEN NaN ELSE a

(***************************************************************************)
(* Mods.                                                                   *)
(***************************************************************************)
Nf(m) == "NF" \in m
So(m) == "SO" \in m
Rx(m) == "RX" \in m
Ap(m) == "AP" \in m
Td(m) == "TD" \in m
Hd(m) == "HD" \in m
Fl(m) == "FL" \in m

(***************************************************************************)
(* Difficulty attributes (src/osu/attributes.rs).  The fields ar, hp,      *)
(* ok_hit_window, meh_hit_window and n_large_ticks are read by none of the *)
(* modelled code and are left out.  great_hit_window is in tenths of ms.   *)
(***************************************************************************)
DefaultDifficultyAttributes ==
    [aim |-> 0, aim_difficult_slider_count |-> 0, jump |-> 0, flow |-> 0,
     precision |-> 0, speed |-> 0, stamina |-> 0, accuracy |-> 0,
     aim_difficult_strain_count |-> 0,
     jump_aim_difficult_strain_count |-> 0,
     flow_aim_difficult_strain_count |-> 0,
     speed_difficult_strain_count |-> 0,
     stamina_difficult_strain_count |-> 0,
     great_hit_window |-> 0,
     n_circles |-> 0, n_sliders |-> 0, n_spinners |-> 0,
     stars |-> 0, max_combo |-> 0]

n_objects(a) == a.n_circles + a.n_sliders + a.n_spinners

\* the overall difficulty in hundredths: od = (79.5 - great_hit_window) / 6
od(a) == ((795 - a.great_hit_window) * 10) \div 6

DefaultPerformanceAttributes ==
    [difficulty |-> DefaultDifficultyAttributes,
     pp |-> 0, pp_aim |-> 0, pp_jump_aim |-> 0, pp_flow_aim |-> 0,
     pp_precision |-> 0, pp_speed |-> 0, pp_stamina |-> 0, pp_acc |-> 0,
     effective_miss_count |-> RatInt(0)]

(***************************************************************************)
(* The performance calculator (src/osu/performance/calculator.rs).         *)
(***************************************************************************)
ENABLE_EFFECTIVE_MISS_COUNT == TRUE
ENABLE_LENGTH_BONUS == TRUE
ENABLE_CSR == TRUE

total_hits(s) == s.n300 + s.n100 + s.n50 + s.misses

\* the mutant drops the clamp to the number of possible breaks
calculate_effective_miss_count_unclamped(a, score_max_combo, count_miss, count_mistakes) ==
    LET full_combo_threshold == Rat(10 * a.max_combo - a.n_sliders, 10)
        combo_based_miss_count ==
            IF a.n_sliders > 0 /\ RatLt(RatInt(score_max_combo), full_combo_threshold)
            THEN RatDivInt(full_combo_threshold, Max(score_max_combo, 1))
            ELSE RatInt(0)
    IN  RatMax(RatInt(count_miss), combo_based_miss_count)

calculate_effective_miss_count(a, score_max_combo, count_miss, count_mistakes) ==
    LET full_combo_threshold == Rat(10 * a.max_combo - a.n_sliders, 10)
        combo_based_miss_count ==
            IF a.n_sliders > 0 /\ RatLt(RatInt(score_max_combo), full_combo_threshold)
            THEN RatDivInt(full_combo_threshold, Max(score_max_combo, 1))
            ELSE RatInt(0)
        clamped == RatMin(combo_based_miss_count, RatInt(count_mistakes))
    IN  RatMax(RatInt(count_miss), clamped)

\* the mutant counts every 300 as one on an accuracy object
calculate_normalized_hit_error_all(od_, object_count, accuracy_object_count, count300) ==
    LET relevant_300_count == count300
        alpha == relevant_300_count
        beta == 1 + accuracy_object_count - relevant_300_count
    IN  IF relevant_300_count <= 0
        THEN [fallback |-> TRUE, alpha |-> alpha, beta |-> beta]
        ELSE IF alpha <= 0 \/ beta <= 0
        THEN [fallback |-> TRUE, alpha |-> alpha, beta |-> beta]
        ELSE [fallback |-> FALSE, alpha |-> alpha, beta |-> beta]

\* which hit error calculate_normalized_hit_error returns: the linear
\* fallback 200 - 10 od, or hit_window / z for Beta(alpha, beta)
calculate_normalized_hit_error(od_, object_count, accuracy_object_count, count300) ==
    LET relevant_300_count == count300 - (object_count - accuracy_object_count)
        alpha == relevant_300_count
        beta == 1 + accuracy_object_count - relevant_300_count
    IN  IF relevant_300_count <= 0
        THEN [fallback |-> TRUE, alpha |-> alpha, beta |-> beta]
        ELSE IF alpha <= 0 \/ beta <= 0
        THEN [fallback |-> TRUE, alpha |-> alpha, beta |-> beta]
        ELSE [fallback |-> FALSE, alpha |-> alpha, beta |-> beta]

\* (od / 13.33)^e in thousandths, e = 18 for 1.8 and e = 50 for 5.0:
\* the f64 values at the overall difficulties of the model
od_ratio_powf(od_, e) ==
    IF od_ >= 1333 THEN 1000
    ELSE IF od_ = 1000 THEN (IF e = 18 THEN 596 ELSE 238)
    ELSE 0

\* the multipliers of n100 and n50 under RX, in thousandths
relax_multipliers(od_) ==
    IF od_ > 0
    THEN <<Max(1000 - od_ratio_powf(od_, 18), 0),
           Max(1000 - od_ratio_powf(od_, 50), 0)>>
    ELSE <<1000, 1000>>

\* the mutant drops the clamp to total_hits
relax_effective_miss_count_unclamped(emc, s, od_) ==
    LET m == relax_multipliers(od_)
    IN  RatAdd(RatAdd(emc, Rat(s.n100 * m[1], 1000)), Rat(s.n50 * m[2], 1000))

relax_effective_miss_count(emc, s, od_) ==
    LET m == relax_multipliers(od_)
    IN  RatMin(RatAdd(RatAdd(emc, Rat(s.n100 * m[1], 1000)),
                      Rat(s.n50 * m[2], 1000)),
               RatInt(total_hits(s)))

calculate_skill_value(skill_diff) ==
    SgnMul(SgnMul(SgnMul(skill_diff, skill_diff), skill_diff), 1)

\* 0.96 / (emc / (4 ln(c)^0.94) + 1), or 0.96 / (emc / 4 + 1) when c <= 1 or
\* the power is not a positive finite number: positive for every emc >= 0
calculate_miss_weight(emc, difficult_strain_count) ==
    IF emc[1] >= 0 THEN 1 ELSE NaN

\* 0.995^e * 1.04 * combo_weight (1.0) * flashlight_length_weight (>= 1)
calculate_aim_weight(normalized_hit_error, m, total_hits_) == 1

\* 0.985^e * 1.12 * combo_weight (1.0)
calculate_speed_weight(normalized_hit_error) == 1

\* tanh((n + 400) / 1050) * 1.2 * mod_weight
calculate_accuracy_weight(m, accuracy_hit_objects_count) ==
    SgnOf(accuracy_hit_objects_count + 400)

\* 560 * 0.85^e
calculate_accuracy_value(normalized_hit_error) == 1

\* 0.95 + 0.4 min(total_hits / 2000, 1) + (log10 term when total_hits > 2000)
length_bonus(total_hits_) == IF total_hits_ >= 0 THEN 1 ELSE NaN

\* the mods' multiplier of the total value
mods_multiplier(a, m, s) ==
    LET base == 1
        nf == IF Nf(m) THEN SgnMul(base, 1) ELSE base
    IN  IF So(m) /\ total_hits(s) > 0
        THEN SgnMul(nf, SgnOf(total_hits(s) - a.n_spinners))
        ELSE nf

\* the mutant takes the smaller of speed and stamina
total_value_min(final_aim, final_speed, final_stamina, accuracy_value, multiplier) ==
    SgnMul(SgnPowf(SgnAdd(SgnAdd(SgnPowf(final_aim),
                                 SgnPowf(Min(final_speed, final_stamina))),
                          SgnPowf(accuracy_value))),
           multiplier)

total_value(final_aim, final_speed, final_stamina, accuracy_value, multiplier) ==
    SgnMul(SgnPowf(SgnAdd(SgnAdd(SgnPowf(final_aim),
                                 SgnPowf(SgnMax(final_speed, final_stamina))),
                          SgnPowf(accuracy_value))),
           multiplier)

\* calculate after the early return
calculate_scored(a, m, s, classic) ==
    LET th == total_hits(s)
        emc0 == RatInt(s.misses)
        accuracy_hit_objects_count ==
            IF ~classic THEN a.n_circles + a.n_sliders ELSE a.n_circles
        emc1 ==
            IF classic /\ ENABLE_EFFECTIVE_MISS_COUNT
            THEN RatMax(emc0, calculate_effective_miss_count(
                                  a, s.max_combo, s.misses, th - s.n300))
            ELSE emc0
        multiplier == mods_multiplier(a, m, s)
        emc == IF Rx(m) THEN relax_effective_miss_count(emc1, s, od(a)) ELSE emc1
        normalized_hit_error ==
            calculate_normalized_hit_error(od(a), th, accuracy_hit_objects_count,
                                           s.n300)
        aim_weight == calculate_aim_weight(normalized_hit_error, m, th)
        speed_weight == calculate_speed_weight(normalized_hit_error)
        accuracy_weight == calculate_accuracy_weight(m, accuracy_hit_objects_count)
        aim_value ==
            SgnMul(SgnMul(aim_weight, calculate_skill_value(a.aim)),
                   calculate_miss_weight(emc, a.aim_difficult_strain_count))
        jump_aim_value ==
            SgnMul(SgnMul(aim_weight, calculate_skill_value(a.jump)),
                   calculate_miss_weight(emc, a.jump_aim_difficult_strain_count))
        flow_aim_value ==
            SgnMul(SgnMul(aim_weight, calculate_skill_value(a.flow)),
                   calculate_miss_weight(emc, a.flow_aim_difficult_strain_count))
        precision_value ==
            SgnMul(SgnMul(aim_weight, calculate_skill_value(a.precision)),
                   calculate_miss_weight(emc, a.aim_difficult_strain_count))
        speed_value ==
            SgnMul(SgnMul(speed_weight, calculate_skill_value(a.speed)),
                   calculate_miss_weight(emc, a.speed_difficult_strain_count))
        stamina_value ==
            SgnMul(SgnMul(speed_weight, calculate_skill_value(a.stamina)),
                   calculate_miss_weight(emc, a.stamina_difficult_strain_count))
        accuracy_value ==
            SgnMul(SgnMul(calculate_accuracy_value(normalized_hit_error), a.accuracy),
                   accuracy_weight)
        lb == IF ENABLE_LENGTH_BONUS THEN length_bonus(th) ELSE 1
        final_aim == SgnMul(aim_value, lb)
        final_jump_aim == SgnMul(jump_aim_value, lb)
        final_flow_aim == SgnMul(flow_aim_value, lb)
        final_precision == SgnMul(precision_value, lb)
        final_speed == SgnMul(speed_value, lb)
        final_stamina == stamina_value
    IN  [difficulty |-> a,
         pp |-> total_value(final_aim, final_speed, final_stamina,
                            accuracy_value, multiplier),
         pp_aim |-> final_aim,
         pp_jump_aim |-> final_jump_aim,
         pp_flow_aim |-> final_flow_aim,
         pp_precision |-> final_precision,
         pp_speed |-> final_speed,
         pp_stamina |-> final_stamina,
         pp_acc |-> accuracy_value,
         effective_miss_count |-> emc]

\* the mutant has no early return
calculate_no_early_return(a, m, s, classic) == calculate_scored(a, m, s, classic)

calculate(a, m, s, classic) ==
    IF total_hits(s) = 0
    THEN [DefaultPerformanceAttributes EXCEPT !.difficulty = a]
    ELSE calculate_scored(a, m, s, classic)

(***************************************************************************)
(* Hit objects (the Beatmap abstraction after convert_objects).            *)
(* Positions are on one axis of the playfield, so every distance is an     *)
(* exact integer and every angle is 0 or pi.  Raw times are multiples of   *)
(* 4.5 ms, the clock rates are 1, 3/2 and 3/4: every division by the clock *)
(* rate and every lerp of rescale_low_strain_time is exact.                *)
(***************************************************************************)
\* a map has at most MaxObjects hit objects
MaxObjects == 3

\* ScalingFactor at the circle size of the model's maps
radius == 13
factor == 4

NORMALIZED_RADIUS == 52
MIN_DELTA_TIME == 250
Infinity == 1000000000
time_preempt == 4500

\* kind, position, and for sliders the offset of the tail (the one nested
\* object), for sliders and spinners the duration
Shapes ==
    {[kind |-> "Circle", pos |-> 0, tail |-> 0, duration |-> 0],
     [kind |-> "Circle", pos |-> 256, tail |-> 0, duration |-> 0],
     [kind |-> "Slider", pos |-> 0, tail |-> 295, duration |-> 900],
     [kind |-> "Slider", pos |-> 256, tail |-> 0, duration |-> 900],
     [kind |-> "Spinner", pos |-> 256, tail |-> 0, duration |-> 900]}

\* start_time of an object minus start_time of the object before it
Gaps == {360, 9000}

\* OsuObject: for a slider lazy_end_pos starts at the position and
\* lazy_travel_dist at 0
OsuObject(shape, t) ==
    [kind |-> shape.kind, start_time |-> t, pos |-> shape.pos,
     end_time |-> t + shape.duration,
     nested_objects |->
         IF shape.kind = "Slider" THEN <<shape.pos + shape.tail>> ELSE <<>>,
     lazy_end_pos |-> shape.pos, lazy_travel_dist |-> 0]

RECURSIVE MapsOfLen(_)
MapsOfLen(n) ==
    IF n = 0 THEN {<<>>}
    ELSE {Append(m, OsuObject(sh, IF m = <<>> THEN 0
                                  ELSE m[Len(m)].start_time + g)) :
              m \in MapsOfLen(n - 1), sh \in Shapes, g \in Gaps}

Maps == UNION {MapsOfLen(n) : n \in 0..MaxObjects}

is_circle(h) == h.kind = "Circle"
is_slider(h) == h.kind = "Slider"
is_spinner(h) == h.kind = "Spinner"
end_time(h) == h.end_time
stacked_pos(h) == h.pos

\* x / clock_rate for a time x
ClockDiv(x, cr) == (x * cr[2]) \div cr[1]

(***************************************************************************)
(* Values in [0, 1] (flows, transitions).  On the maps of the model every  *)
(* transition is decided: "0" or "1".  "?" is a value of [0, 1] that the   *)
(* bounds used here do not decide.                                         *)
(***************************************************************************)
UMul(a, b) ==
    IF a = "0" \/ b = "0" THEN "0"
    ELSE IF a = "1" THEN b
    ELSE IF b = "1" THEN a
    ELSE "?"
UNot(a) == IF a = "0" THEN "1" ELSE IF a = "1" THEN "0" ELSE "?"
UMax(a, b) ==
    IF a = "1" \/ b = "1" THEN "1"
    ELSE IF a = "0" /\ b = "0" THEN "0"
    ELSE "?"

(***************************************************************************)
(* src/util/pplus.rs                                                       *)
(***************************************************************************)
is_roughly_equal(a, b) == 5 * a > 4 * b /\ 4 * a < 5 * b

\* the mutant allows 500 ms either way
is_ratio_equal_wide(ratio, a, b) ==
    1000 * (a + 5000) > ratio * b /\ 1000 * (a - 5000) < ratio * b

\* ratio in thousandths, a and b in tenths of ms
is_ratio_equal(ratio, a, b) ==
    1000 * (a + 50) > ratio * b /\ 1000 * (a - 50) < ratio * b
is_ratio_equal_greater(ratio, a, b) == 1000 * (a + 50) > ratio * b
is_ratio_equal_less(ratio, a, b) == 1000 * (a - 50) < ratio * b

is_null_or_nan(nullable_double) == nullable_double = <<>>

\* on rationals; the cosine branch is not evaluated
transition_to_true(value, transition_start, transition_interval) ==
    IF RatLe(value, transition_start) THEN "0"
    ELSE IF RatLe(RatAdd(transition_start, transition_interval), value) THEN "1"
    ELSE "?"

\* the transition start and interval are known by bounds lo <= . <= hi
transition_to_false(value, start_lo, start_hi, interval_hi) ==
    IF value <= start_lo THEN "1"
    ELSE IF value >= start_hi + interval_hi THEN "0"
    ELSE "?"

(***************************************************************************)
(* Difficulty objects (src/osu/difficulty/object.rs).  An Option is a      *)
(* sequence of length 0 or 1.  stream_bpm is a rational.                   *)
(***************************************************************************)
new(hit_object, idx) ==
    [idx |-> idx, base |-> hit_object,
     delta_time |-> 0, start_time |-> 0, end_time |-> 0,
     gap_time |-> 0, strain_time |-> 0, last_two_strain_time |-> 0,
     raw_jump_dist |-> 0, jump_dist |-> 0,
     base_flow |-> "0", flow |-> "0",
     travel_dist |-> 0, travel_time |-> 0,
     angle |-> <<>>, angle_leniency |-> "0",
     preempt |-> 0, stream_bpm |-> RatInt(0)]

\* start + (end - start) * amount, amount a fraction <<numerator, denominator>>
lerp(start, end, amount) == start + ((end - start) * amount[1]) \div amount[2]

\* the mutant leaves every strain time as it is
rescale_low_strain_time_identity(strain_time, min_strain_time, target_min_strain_time, low_strain_time_threshold) ==
    strain_time

rescale_low_strain_time(strain_time, min_strain_time, target_min_strain_time, low_strain_time_threshold) ==
    IF strain_time < low_strain_time_threshold
    THEN lerp(target_min_strain_time, low_strain_time_threshold,
              <<strain_time - min_strain_time, min_strain_time>>)
    ELSE strain_time

get_end_cursor_pos(hit_object) ==
    IF is_slider(hit_object) THEN hit_object.lazy_end_pos
    ELSE stacked_pos(hit_object)

\* the mutant keeps the sign of atan2(-0.0, dot)
atan2_signed(dot) == IF dot < 0 THEN -180 ELSE 0

\* |atan2(det, dot)| in degrees, for det = 0
atan2_abs(dot) == IF dot < 0 THEN 180 ELSE 0

set_distances(this, last_object, last_last_object, cr) ==
    LET t1 == IF is_circle(last_object)
              THEN [this EXCEPT !.travel_time = this.strain_time]
              ELSE this
        t2 == IF is_slider(last_object)
              THEN [t1 EXCEPT
                       !.travel_dist = last_object.lazy_travel_dist * factor,
                       !.travel_time =
                           Max(ClockDiv(this.start_time - end_time(last_object), cr),
                               MIN_DELTA_TIME)]
              ELSE t1
        t3 == IF is_spinner(last_object)
              THEN [t2 EXCEPT
                       !.travel_time =
                           Max(ClockDiv(this.start_time - end_time(last_object), cr),
                               MIN_DELTA_TIME)]
              ELSE t2
        last_cursor_pos == get_end_cursor_pos(last_object)
        t4 == IF ~is_spinner(this.base)
              THEN [t3 EXCEPT !.raw_jump_dist =
                                  Abs(stacked_pos(this.base) - last_cursor_pos)]
              ELSE t3
        t5 == [t4 EXCEPT !.jump_dist =
                             Abs(stacked_pos(this.base) * factor
                                 - last_cursor_pos * factor)]
    IN  IF last_last_object # <<>>
        THEN LET last_last_cursor_pos == get_end_cursor_pos(last_last_object[1])
                 v1 == last_last_cursor_pos - stacked_pos(last_object)
                 v2 == stacked_pos(this.base) - last_cursor_pos
             IN  [t5 EXCEPT !.angle = <<atan2_abs(v1 * v2)>>]
        ELSE t5

calculate_speed_flow(this) ==
    transition_to_true(this.stream_bpm, RatInt(90), RatInt(30))

\* distance_offset = (tanh(.) + 2) * 52 lies in [52, 156];
\* angle_scaling_factor is <<lo, hi>> in thousandths
calculate_distance_flow(this, angle_scaling_factor) ==
    transition_to_false(this.jump_dist * 1000,
                        NORMALIZED_RADIUS * angle_scaling_factor[1],
                        3 * NORMALIZED_RADIUS * angle_scaling_factor[2],
                        3 * NORMALIZED_RADIUS * 1000)

\* distance_offset = (tanh(.) * 1.75 + 2.75) * 52 lies in [52, 234]
calculate_extended_distance_flow(this) ==
    transition_to_false(this.jump_dist * 2, 2 * NORMALIZED_RADIUS,
                        9 * NORMALIZED_RADIUS, 9 * NORMALIZED_RADIUS)

\* <<lo, hi>> in thousandths
calculate_angle_scaling_factor(angle, last_diff_object) ==
    IF is_null_or_nan(angle) THEN <<500, 500>>
    ELSE IF angle[1] = 180 THEN <<1000, 1000>>
    ELSE IF last_diff_object.angle_leniency = "0" THEN <<500, 500>>
    ELSE IF last_diff_object.angle_leniency = "1" THEN <<1000, 1000>>
    ELSE <<500, 1000>>

calculate_irregular_flow(this, last_diff_object, last_last_diff_object) ==
    LET i0 == calculate_extended_distance_flow(this)
        i1 == IF is_roughly_equal(this.strain_time, last_diff_object.strain_time)
              THEN UMul(i0, last_diff_object.base_flow)
              ELSE "0"
    IN  IF last_last_diff_object # <<>>
        THEN IF is_roughly_equal(this.strain_time,
                                 last_last_diff_object[1].strain_time)
             THEN UMul(i1, last_last_diff_object[1].base_flow)
             ELSE "0"
        ELSE i1

\* the mutant multiplies base_flow and irregular_flow into flow instead of
\* taking the larger of the two
set_flow_values_product(this, last_diff_object, last_last_diff_object) ==
    IF last_diff_object # <<>>
    THEN LET last == last_diff_object[1]
             b1 == IF is_ratio_equal_less(667, this.strain_time, last.strain_time)
                   THEN UMul(calculate_speed_flow(this),
                             calculate_distance_flow(this, <<1000, 1000>>))
                   ELSE this.base_flow
             b2 == IF is_roughly_equal(this.strain_time, last.strain_time)
                   THEN UMul(calculate_speed_flow(this),
                             calculate_distance_flow(
                                 this, calculate_angle_scaling_factor(this.angle, last)))
                   ELSE b1
             t1 == [this EXCEPT !.base_flow = b2]
             irregular_flow ==
                 calculate_irregular_flow(t1, last, last_last_diff_object)
         IN  [t1 EXCEPT !.angle_leniency = UMul(UNot(b2), irregular_flow),
                        !.flow = UMul(b2, irregular_flow)]
    ELSE LET b == UMul(calculate_speed_flow(this),
                       calculate_distance_flow(this, <<1000, 1000>>))
         IN  [this EXCEPT !.base_flow = b, !.flow = b]

set_flow_values(this, last_diff_object, last_last_diff_object) ==
    IF last_diff_object # <<>>
    THEN LET last == last_diff_object[1]
             b1 == IF is_ratio_equal_less(667, this.strain_time, last.strain_time)
                   THEN UMul(calculate_speed_flow(this),
                             calculate_distance_flow(this, <<1000, 1000>>))
                   ELSE this.base_flow
             b2 == IF is_roughly_equal(this.strain_time, last.strain_time)
                   THEN UMul(calculate_speed_flow(this),
                             calculate_distance_flow(
                                 this, calculate_angle_scaling_factor(this.angle, last)))
                   ELSE b1
             t1 == [this EXCEPT !.base_flow = b2]
             irregular_flow ==
                 calculate_irregular_flow(t1, last, last_last_diff_object)
         IN  [t1 EXCEPT !.angle_leniency = UMul(UNot(b2), irregular_flow),
                        !.flow = UMax(b2, irregular_flow)]
    ELSE LET b == UMul(calculate_speed_flow(this),
                       calculate_distance_flow(this, <<1000, 1000>>))
         IN  [this EXCEPT !.base_flow = b, !.flow = b]

\* the mutant measures from the end of the last object
run_delta_time_from_end(base, last_object, cr) ==
    ClockDiv(base.start_time - end_time(last_object), cr)

\* (self.base.start_time - last_object.start_time) / clock_rate
run_delta_time(base, last_object, cr) ==
    ClockDiv(base.start_time - last_object.start_time, cr)

run(this, last_object, last_last_object, last_diff_object, last_last_diff_object, cr) ==
    LET a == [this EXCEPT
                 !.delta_time = run_delta_time(this.base, last_object, cr),
                 !.start_time = ClockDiv(this.base.start_time, cr),
                 !.end_time = ClockDiv(end_time(this.base), cr)]
        b == set_distances(a, last_object, last_last_object, cr)
        strain_time == Max(b.delta_time, MIN_DELTA_TIME)
        c == [b EXCEPT
                 !.preempt = ClockDiv(time_preempt, cr),
                 !.strain_time = strain_time,
                 !.stream_bpm = Rat(150000, strain_time),
                 !.last_two_strain_time =
                     IF last_last_object # <<>>
                     THEN Max(ClockDiv(this.base.start_time
                                       - last_last_object[1].start_time, cr),
                              MIN_DELTA_TIME * 2)
                     ELSE Infinity]
        d == IF is_circle(last_object)
             THEN [c EXCEPT !.gap_time = c.strain_time]
             ELSE IF is_slider(last_object) \/ is_spinner(last_object)
             THEN [c EXCEPT !.gap_time =
                      Max(ClockDiv(this.base.start_time - end_time(last_object), cr),
                          MIN_DELTA_TIME)]
             ELSE c
        e == [d EXCEPT
                 !.strain_time =
                     rescale_low_strain_time(d.strain_time, 250, 300, 500),
                 !.last_two_strain_time =
                     rescale_low_strain_time(d.last_two_strain_time, 500, 600, 1000),
                 !.gap_time =
                     rescale_low_strain_time(d.gap_time, 250, 300, 500)]
    IN  set_flow_values(e, last_diff_object, last_last_diff_object)

\* the loop over the nested objects: acc is the cursor and the slider fields
RECURSIVE slider_cursor_walk(_, _, _)
slider_cursor_walk(h, i, acc) ==
    IF i > Len(h.nested_objects) THEN acc
    ELSE LET curr_movement == h.nested_objects[i] - acc.curr_cursor_pos
             curr_movement_len == Abs(curr_movement)
             approx_follow_circle_radius == radius * 3
             moves == curr_movement_len > approx_follow_circle_radius
             len == curr_movement_len - approx_follow_circle_radius
             cursor == IF moves
                       THEN acc.curr_cursor_pos + SgnOf(curr_movement) * len
                       ELSE acc.curr_cursor_pos
         IN  slider_cursor_walk(h, i + 1,
                 [curr_cursor_pos |-> cursor,
                  lazy_travel_dist |->
                      IF moves THEN acc.lazy_travel_dist + len
                      ELSE acc.lazy_travel_dist,
                  lazy_end_pos |->
                      IF i = Len(h.nested_objects) THEN cursor
                      ELSE acc.lazy_end_pos])

compute_slider_cursor_pos(h) ==
    IF ~is_slider(h) THEN h
    ELSE LET r == slider_cursor_walk(h, 1,
                      [curr_cursor_pos |-> h.pos,
                       lazy_travel_dist |-> h.lazy_travel_dist,
                       lazy_end_pos |-> h.lazy_end_pos])
         IN  [h EXCEPT !.lazy_travel_dist = r.lazy_travel_dist,
                       !.lazy_end_pos = r.lazy_end_pos]

\* the hit objects after create_difficulty_objects: the lazy iterator runs
\* compute_slider_cursor_pos on the objects it yields
computed_objects(objects, take_) ==
    [i \in 1..Len(objects) |->
        IF i = 1 \/ take_ > 0 THEN compute_slider_cursor_pos(objects[i])
        ELSE objects[i]]

\* the loop of create_difficulty_objects from hit object i on
RECURSIVE run_objects(_, _, _, _)
run_objects(objects, i, acc, cr) ==
    IF i > Len(objects) THEN acc
    ELSE LET n == Len(acc)
             this == new(objects[i], i - 2)
         IN  run_objects(objects, i + 1,
                 Append(acc,
                     run(this, objects[i - 1],
                         IF i >= 3 THEN <<objects[i - 2]>> ELSE <<>>,
                         IF n >= 1 THEN <<acc[n]>> ELSE <<>>,
                         IF n >= 2 THEN <<acc[n - 1]>> ELSE <<>>,
                         cr)),
                 cr)

\* the mutant runs the difficulty objects on hit objects whose lazy cursor
\* has not been computed
create_difficulty_objects_eager(objects, take_, cr) ==
    IF objects = <<>> \/ ~(take_ > 0) THEN <<>>
    ELSE run_objects(objects, 2, <<>>, cr)

create_difficulty_objects(objects, take_, cr) ==
    IF objects = <<>> \/ ~(take_ > 0) THEN <<>>
    ELSE run_objects(computed_objects(objects, take_), 2, <<>>, cr)

\* convert_objects counts the first take objects into the attributes
convert_objects(a, objects, take_) ==
    LET counted == {i \in 1..Len(objects) : i <= take_}
        kind_count(k) == Cardinality({i \in counted : objects[i].kind = k})
        n_nested == Cardinality({i \in counted : is_slider(objects[i])})
    IN  [a EXCEPT !.n_circles = kind_count("Circle"),
                  !.n_sliders = kind_count("Slider"),
                  !.n_spinners = kind_count("Spinner"),
                  !.max_combo = Cardinality(counted) + n_nested]

(***************************************************************************)
(* Strain skills.  A strain is tracked by its sign.  strain_decay(ms, b) = *)
(* b^(ms / 1000) is positive, and every weight and multiplier of the       *)
(* evaluators is positive, so the sign of a strain is the sign of the base *)
(* value of its evaluator.                                                 *)
(***************************************************************************)
SECTION_LEN == 4000

CeilDiv(a, b) == -((-a) \div b)

\* a strain skill as define_skill! declares it; slider_strains and the
\* evaluator's preempt_hit_objects are used by Aim
StrainSkillNew(aim_type) ==
    [aim_type |-> aim_type,
     current_strain |-> 0,
     current_section_peak |-> 0,
     current_section_end |-> 0,
     strain_peaks |-> <<>>,
     object_strains |-> <<>>,
     slider_strains |-> <<>>,
     preempt_hit_objects |-> <<>>]

\* current_strain * strain_decay(time - prev_start_time, STRAIN_DECAY_BASE)
calculate_initial_strain(sk, time, curr) == SgnMul(sk.current_strain, 1)

\* save_current_peak, start_new_section_from, while the object starts after
\* the end of the current section
RECURSIVE advance_sections(_, _)
advance_sections(sk, curr) ==
    IF curr.start_time > sk.current_section_end
    THEN advance_sections(
             [sk EXCEPT
                 !.strain_peaks = Append(@, sk.current_section_peak),
                 !.current_section_peak =
                     calculate_initial_strain(sk, sk.current_section_end, curr),
                 !.current_section_end = @ + SECTION_LEN],
             curr)
    ELSE sk

StrainSkill_sections(sk, curr) ==
    advance_sections(
        IF curr.idx = 0
        THEN [sk EXCEPT !.current_section_end =
                            CeilDiv(curr.start_time, SECTION_LEN) * SECTION_LEN]
        ELSE sk,
        curr)

get_current_strain_peaks(sk) == Append(sk.strain_peaks, sk.current_section_peak)

\* the sum of the non-zero peaks with positive weights
RECURSIVE SgnSum(_)
SgnSum(seq) ==
    IF seq = <<>> THEN 0 ELSE SgnAdd(seq[1], SgnSum(Tail(seq)))

difficulty_value_old(current_strain_peaks) ==
    SgnSum(SelectSeq(current_strain_peaks, LAMBDA x : x # 0))

cloned_difficulty_value(sk) == difficulty_value_old(get_current_strain_peaks(sk))

\* the sum over the object strains of a logistic weight against the top
\* strain, by its sign: 0 when every object strain is 0
count_top_weighted_strains(sk, difficulty_value) ==
    IF \A i \in 1..Len(sk.object_strains) : sk.object_strains[i] = 0 THEN 0
    ELSE 1

(***************************************************************************)
(* src/osu/difficulty/skills/aim.rs                                        *)
(***************************************************************************)
\* jump_aim_base * angle_weight * pattern_weight * location_weight * (1 - flow),
\* the weights are at least 1
calc_jump_aim_value(curr) ==
    IF curr.flow = "1" THEN 0 ELSE SgnOf(curr.jump_dist)

\* flow_aim_base > 0, angle_weight >= 1, pattern_weight > 0
calc_flow_aim_value(curr) ==
    IF curr.flow = "0" THEN 0 ELSE 1

\* the branch of calc_flow_pattern_weight that sets angle_bonus; prev is
\* <<>> for None
calc_flow_angle_bonus_branch(curr, prev) ==
    IF prev = <<>> THEN "no_prev"
    ELSE IF is_null_or_nan(curr.angle) \/ is_null_or_nan(prev.angle)
    THEN "null_or_nan"
    ELSE LET cangle == curr.angle[1]
             pangle == prev.angle[1]
         IN  IF (cangle > 0 /\ pangle < 0) \/ (cangle < 0 /\ pangle > 0)
             THEN "sign_change"
             ELSE IF Abs(cangle) < Abs(pangle) THEN "smaller"
             ELSE "neither"

\* angle_bonus by its sign, for angles of 0 and pi: an angle_change of pi
\* gives midpoint(-cos(sin(pi / 2) * pi), 1) = 1 in both branches
calc_flow_angle_bonus(curr, prev) ==
    IF calc_flow_angle_bonus_branch(curr, prev) \in {"sign_change", "smaller"}
    THEN 1
    ELSE 0

PreemptOsuObject(obj) ==
    [start_time |-> obj.start_time, jump_dist |-> obj.jump_dist,
     base_flow |-> obj.base_flow]

\* the mutant evicts nothing
evict_nothing(preempt_hit_objects, curr) == preempt_hit_objects

\* the while loop of calc_reading_multiplier: pop_front while the front
\* starts before curr.start_time - curr.preempt
RECURSIVE evict_preempt_hit_objects(_, _)
evict_preempt_hit_objects(preempt_hit_objects, curr) ==
    IF preempt_hit_objects # <<>>
       /\ Head(preempt_hit_objects).start_time < curr.start_time - curr.preempt
    THEN evict_preempt_hit_objects(Tail(preempt_hit_objects), curr)
    ELSE preempt_hit_objects

\* the objects whose calc_reading_density is summed into reading_strain
reading_density_objects(preempt_hit_objects, curr) ==
    evict_preempt_hit_objects(preempt_hit_objects, curr)

\* calc_reading_multiplier, by the window it leaves: the multiplier itself
\* is at least 1
calc_reading_multiplier(preempt_hit_objects, curr) ==
    Append(reading_density_objects(preempt_hit_objects, curr),
           PreemptOsuObject(curr))

\* 1 + 120 / radius^2
calc_small_circle_bonus(r) == Rat(r * r + 120, r * r)

\* the mutant leaves the flow aim out of the All evaluation
Aim_evaluate_diff_of_jump_only(curr, aim_type) ==
    CASE aim_type \in {"All", "Jump"} ->
             SgnMul(calc_jump_aim_value(curr),
                    SgnOf(calc_small_circle_bonus(radius)[1]))
      [] aim_type = "Flow" ->
             SgnMul(calc_flow_aim_value(curr),
                    SgnOf(calc_small_circle_bonus(radius)[1]))
      [] aim_type = "Raw" ->
             SgnAdd(calc_flow_aim_value(curr), calc_jump_aim_value(curr))

\* the aim value by its type, times reading_multiplier, which is at least 1
Aim_evaluate_diff_of(curr, aim_type) ==
    CASE aim_type = "All" ->
             SgnMul(SgnAdd(calc_jump_aim_value(curr), calc_flow_aim_value(curr)),
                    SgnOf(calc_small_circle_bonus(radius)[1]))
      [] aim_type = "Flow" ->
             SgnMul(calc_flow_aim_value(curr),
                    SgnOf(calc_small_circle_bonus(radius)[1]))
      [] aim_type = "Jump" ->
             SgnMul(calc_jump_aim_value(curr),
                    SgnOf(calc_small_circle_bonus(radius)[1]))
      [] aim_type = "Raw" ->
             SgnAdd(calc_flow_aim_value(curr), calc_jump_aim_value(curr))

\* the mutant records the strain of every object as a slider strain
Aim_strain_value_at_all_objects(sk, curr) ==
    LET strain == SgnAdd(SgnMul(sk.current_strain, 1),
                         SgnMul(Aim_evaluate_diff_of(curr, sk.aim_type), 1))
    IN  [sk EXCEPT !.current_strain = strain,
                   !.preempt_hit_objects = calc_reading_multiplier(@, curr),
                   !.slider_strains = Append(@, strain)]

Aim_strain_value_at(sk, curr) ==
    LET strain == SgnAdd(SgnMul(sk.current_strain, 1),
                         SgnMul(Aim_evaluate_diff_of(curr, sk.aim_type), 1))
    IN  [sk EXCEPT !.current_strain = strain,
                   !.preempt_hit_objects = calc_reading_multiplier(@, curr),
                   !.slider_strains =
                       IF is_slider(curr.base) THEN Append(@, strain) ELSE @]

\* the sum of the logistic weights of the slider strains, each positive
get_difficult_sliders(sk) ==
    IF sk.slider_strains = <<>> THEN 0
    ELSE IF \A i \in 1..Len(sk.slider_strains) : sk.slider_strains[i] <= 0 THEN 0
    ELSE 1

(***************************************************************************)
(* src/osu/difficulty/skills/speed.rs and stamina.rs                       *)
(***************************************************************************)
\* ms - 20.0 for ms = last_two_strain_time / 2.0, doubled, in tenths of ms
evaluator_divisor(curr) ==
    IF curr.last_two_strain_time = Infinity THEN Infinity
    ELSE curr.last_two_strain_time - 400

\* c / x for a c > 0, by its sign: 0 at an infinite x, not a number the
\* evaluators can use at x = 0
SgnDivBy(x) == IF x = Infinity THEN 0 ELSE IF x = 0 THEN NaN ELSE SgnOf(x)

\* (1 - flow) * tap_value + flow * stream_value, by the sign of the two
SgnBlend(flow, tap_value, stream_value) ==
    IF flow = "0" THEN tap_value
    ELSE IF flow = "1" THEN stream_value
    ELSE SgnAdd(tap_value, stream_value)

\* tap_value = 30 / (ms - 20)^2 + 2 / ms,
\* stream_value = 12.5 / (ms - 20)^2 + 0.25 / ms + 0.005
Speed_evaluate_diff_of(curr) ==
    LET squared == SgnDivBy(IF evaluator_divisor(curr) = Infinity THEN Infinity
                            ELSE evaluator_divisor(curr) * evaluator_divisor(curr))
        tap_value == SgnAdd(squared, SgnDivBy(curr.last_two_strain_time))
        stream_value ==
            SgnAdd(SgnAdd(squared, SgnDivBy(curr.last_two_strain_time)), 1)
    IN  SgnBlend(curr.flow, tap_value, stream_value)

\* the evaluation at an infinite ms, where c / ms = 0, for a flow of 0 or 1
Speed_evaluate_at_infinity(flow) ==
    LET reciprocal == RatInt(0)
        tap_value == RatAdd(RatMulInt(reciprocal, 30), RatMulInt(reciprocal, 2))
        stream_value ==
            RatAdd(RatAdd(RatDivInt(RatMulInt(reciprocal, 25), 2),
                          RatDivInt(reciprocal, 4)),
                   Rat(5, 1000))
    IN  IF flow = "0" THEN tap_value ELSE stream_value

Speed_strain_value_at(sk, curr) ==
    [sk EXCEPT !.current_strain =
                   SgnAdd(SgnMul(@, 1), SgnMul(Speed_evaluate_diff_of(curr), 1))]

\* tap_value = 2 / (ms - 20), stream_value = 1 / (ms - 20)
Stamina_evaluate_diff_of(curr) ==
    SgnBlend(curr.flow, SgnDivBy(evaluator_divisor(curr)),
             SgnDivBy(evaluator_divisor(curr)))

Stamina_strain_value_at(sk, curr) ==
    [sk EXCEPT !.current_strain =
                   SgnAdd(SgnMul(@, 1), SgnMul(Stamina_evaluate_diff_of(curr), 1))]

\* StrainSkill::process; strain_value_at is the one of the skill the macro
\* is expanded for, and returns the skill it has updated
StrainSkill_process(sk, curr, skill) ==
    LET sections == StrainSkill_sections(sk, curr)
        s1 == CASE skill = "Aim" -> Aim_strain_value_at(sections, curr)
                [] skill = "Speed" -> Speed_strain_value_at(sections, curr)
                [] skill = "Stamina" -> Stamina_strain_value_at(sections, curr)
    IN  [s1 EXCEPT
            !.current_section_peak = SgnMax(s1.current_strain, @),
            !.object_strains = Append(@, s1.current_strain)]

(***************************************************************************)
(* src/osu/difficulty/skills/rhythm_complexity.rs.  flow_total and         *)
(* jump_total are written and never read; they are left out.  The bonus    *)
(* operators return the sign of the bonus and the skill they have updated. *)
(***************************************************************************)
RhythmComplexity_new(is_slider_acc) ==
    [note_index |-> 0,
     difficulty_total |-> 0,
     difficulty_total_slider_acc |-> 0,
     hit_circle_count |-> 0,
     accuracy_object_count |-> 0,
     is_previous_offbeat |-> FALSE,
     prev_doubles |-> <<>>,
     is_slider_acc |-> is_slider_acc]

RatMul(a, b) == Rat(a[1] * b[1], a[2] * b[2])

\* 1.0 - 0.5 * 0.9^k
offbeat_decay(k) == Rat(2 * 10^k - 9^k, 2 * 10^k)

\* the loop over prev_doubles of the offbeat branch
RECURSIVE offbeat_bonus_loop(_, _, _)
offbeat_bonus_loop(prev_doubles, note_index, rhythm_bonus) ==
    IF prev_doubles = <<>> THEN rhythm_bonus
    ELSE offbeat_bonus_loop(
             Tail(prev_doubles), note_index,
             IF Head(prev_doubles) > 0
             THEN RatMul(rhythm_bonus,
                         offbeat_decay(note_index - Head(prev_doubles)))
             ELSE RatInt(5))

\* the bonus of the offbeat branch, over the last 10 of prev_doubles
offbeat_rhythm_bonus(prev_doubles, note_index) ==
    offbeat_bonus_loop(
        SubSeq(prev_doubles, Max(Len(prev_doubles) - 10, 0) + 1,
               Len(prev_doubles)),
        note_index, RatInt(5))

calc_circle_to_circle_rhythm_bonus(sk, curr, prev) ==
    LET high_flow == curr.flow = "1"
        offbeat_double ==
            sk.is_previous_offbeat
            /\ is_ratio_equal_greater(1500, curr.gap_time, prev.gap_time)
        two_thirds == is_ratio_equal(667, curr.gap_time, prev.gap_time)
        rhythm_bonus ==
            IF offbeat_double
            THEN SgnOf(offbeat_rhythm_bonus(sk.prev_doubles, sk.note_index)[1])
            ELSE IF two_thirds THEN 1
            ELSE IF is_ratio_equal(333, curr.gap_time, prev.gap_time) THEN 1
            ELSE IF is_ratio_equal(500, curr.gap_time, prev.gap_time)
                    \/ is_ratio_equal(250, curr.gap_time, prev.gap_time) THEN 1
            ELSE 0
        prev_doubles ==
            IF offbeat_double THEN Append(sk.prev_doubles, sk.note_index)
            ELSE IF two_thirds /\ high_flow THEN Append(sk.prev_doubles, -1)
            ELSE sk.prev_doubles
        is_previous_offbeat ==
            IF two_thirds /\ high_flow THEN TRUE
            ELSE IF is_ratio_equal(1000, curr.gap_time, prev.gap_time) /\ high_flow
            THEN ~sk.is_previous_offbeat
            ELSE FALSE
    IN  [bonus |-> rhythm_bonus,
         skill |-> [sk EXCEPT !.prev_doubles = prev_doubles,
                              !.is_previous_offbeat = is_previous_offbeat]]

\* distance_offset lies in [52, 156]
calc_slider_end_flow(curr) ==
    LET stream_bpm == Rat(150000, curr.gap_time)
        is_flow_speed == transition_to_true(stream_bpm, RatInt(120), RatInt(30))
        is_flow_distance ==
            transition_to_false(curr.jump_dist, NORMALIZED_RADIUS,
                                3 * NORMALIZED_RADIUS, NORMALIZED_RADIUS)
    IN  UMul(is_flow_speed, is_flow_distance)

calc_slider_to_circle_rhythm_bonus(sk, curr) ==
    LET slider_ms == curr.strain_time - curr.gap_time
    IN  IF is_ratio_equal(500, curr.gap_time, slider_ms)
           \/ is_ratio_equal(250, curr.gap_time, slider_ms)
        THEN LET end_flow == calc_slider_end_flow(curr)
             IN  [bonus |-> IF end_flow = "0" THEN 0 ELSE 1,
                  skill |-> [sk EXCEPT !.is_previous_offbeat = end_flow = "1"]]
        ELSE [bonus |-> 0, skill |-> [sk EXCEPT !.is_previous_offbeat = FALSE]]

calc_rhythm_bonus(sk, curr, objects) ==
    LET rhythm_bonus == IF curr.flow = "0" THEN 0 ELSE 1
    IN  IF curr.idx = 0 THEN [bonus |-> rhythm_bonus, skill |-> sk]
        ELSE LET prev == objects[curr.idx]
                 r == CASE is_circle(prev.base) ->
                               calc_circle_to_circle_rhythm_bonus(sk, curr, prev)
                        [] is_slider(prev.base) ->
                               calc_slider_to_circle_rhythm_bonus(sk, curr)
                        [] is_spinner(prev.base) ->
                               [bonus |-> 0,
                                skill |-> [sk EXCEPT !.is_previous_offbeat = FALSE]]
             IN  [bonus |-> SgnAdd(rhythm_bonus, r.bonus), skill |-> r.skill]

\* the mutant leaves is_previous_offbeat alone on an object that does not
\* count for accuracy
RhythmComplexity_process_no_reset(sk, curr, objects) ==
    LET s1 ==
        IF is_circle(curr.base)
        THEN LET r == calc_rhythm_bonus(sk, curr, objects)
             IN  [r.skill EXCEPT
                     !.difficulty_total = SgnAdd(@, r.bonus),
                     !.difficulty_total_slider_acc = SgnAdd(@, r.bonus),
                     !.hit_circle_count = @ + 1,
                     !.accuracy_object_count = @ + 1]
        ELSE IF sk.is_slider_acc /\ is_slider(curr.base)
        THEN LET r == calc_rhythm_bonus(sk, curr, objects)
             IN  [r.skill EXCEPT
                     !.difficulty_total_slider_acc = SgnAdd(@, r.bonus),
                     !.accuracy_object_count = @ + 1]
        ELSE sk
    IN  [s1 EXCEPT !.note_index = @ + 1]

\* the mutant advances note_index only on an object that counts for
\* accuracy, and counts a slider head as a hit circle
RhythmComplexity_process_counted_index(sk, curr, objects) ==
    IF is_circle(curr.base) \/ (sk.is_slider_acc /\ is_slider(curr.base))
    THEN LET r == calc_rhythm_bonus(sk, curr, objects)
         IN  [r.skill EXCEPT
                 !.difficulty_total_slider_acc = SgnAdd(@, r.bonus),
                 !.hit_circle_count = @ + 1,
                 !.accuracy_object_count = @ + 1,
                 !.note_index = @ + 1]
    ELSE [sk EXCEPT !.is_previous_offbeat = FALSE]

RhythmComplexity_process(sk, curr, objects) ==
    LET s1 ==
        IF is_circle(curr.base)
        THEN LET r == calc_rhythm_bonus(sk, curr, objects)
             IN  [r.skill EXCEPT
                     !.difficulty_total = SgnAdd(@, r.bonus),
                     !.difficulty_total_slider_acc = SgnAdd(@, r.bonus),
                     !.hit_circle_count = @ + 1,
                     !.accuracy_object_count = @ + 1]
        ELSE IF sk.is_slider_acc /\ is_slider(curr.base)
        THEN LET r == calc_rhythm_bonus(sk, curr, objects)
             IN  [r.skill EXCEPT
                     !.difficulty_total_slider_acc = SgnAdd(@, r.bonus),
                     !.accuracy_object_count = @ + 1]
        ELSE [sk EXCEPT !.is_previous_offbeat = FALSE]
    IN  [s1 EXCEPT !.note_index = @ + 1]

\* the mutant returns 0.0 for no objects
calc_difficulty_value_for_zero(difficulty, object_count) ==
    IF object_count = 0 THEN 0
    ELSE SgnAdd(1, SgnMul(difficulty, SgnOf(object_count)))

\* 1.0 for no objects, else 1 + difficulty / object_count * tanh(object_count / 50)
calc_difficulty_value_for(difficulty, object_count) ==
    IF object_count = 0 THEN 1
    ELSE SgnAdd(1, SgnMul(difficulty, SgnOf(object_count)))

RhythmComplexity_cloned_difficulty_value(sk) ==
    SgnMax(calc_difficulty_value_for(sk.difficulty_total, sk.hit_circle_count),
           calc_difficulty_value_for(sk.difficulty_total_slider_acc,
                                     sk.accuracy_object_count))

(***************************************************************************)
(* src/osu/difficulty/skills/mod.rs                                        *)
(***************************************************************************)
\* slider heads count for accuracy in lazer without the classic mod
no_slider_head_acc(m, lazer_) == ~lazer_ \/ "CL" \in m

OsuSkills_new(m, lazer_) ==
    [aim |-> StrainSkillNew("All"),
     raw_aim |-> StrainSkillNew("Raw"),
     jump_aim |-> StrainSkillNew("Jump"),
     flow_aim |-> StrainSkillNew("Flow"),
     speed |-> StrainSkillNew("None"),
     stamina |-> StrainSkillNew("None"),
     rhythm_complexity |-> RhythmComplexity_new(~no_slider_head_acc(m, lazer_))]

\* the mutant lets raw_aim work on the state of aim
OsuSkills_process_aliased(sk, curr, objects) ==
    [aim |-> StrainSkill_process(sk.aim, curr, "Aim"),
     raw_aim |-> StrainSkill_process(sk.aim, curr, "Aim"),
     jump_aim |-> StrainSkill_process(sk.jump_aim, curr, "Aim"),
     flow_aim |-> StrainSkill_process(sk.flow_aim, curr, "Aim"),
     speed |-> StrainSkill_process(sk.speed, curr, "Speed"),
     stamina |-> StrainSkill_process(sk.stamina, curr, "Stamina"),
     rhythm_complexity |->
         RhythmComplexity_process(sk.rhythm_complexity, curr, objects)]

\* one of the seven calls of OsuSkills::process: the skill named name
\* processes curr, the other skills are not touched
process_skill(sk, name, curr, objects) ==
    CASE name \in {"aim", "raw_aim", "jump_aim", "flow_aim"} ->
             [sk EXCEPT ![name] = StrainSkill_process(sk[name], curr, "Aim")]
      [] name = "speed" ->
             [sk EXCEPT !.speed = StrainSkill_process(sk.speed, curr, "Speed")]
      [] name = "stamina" ->
             [sk EXCEPT !.stamina = StrainSkill_process(sk.stamina, curr, "Stamina")]
      [] name = "rhythm_complexity" ->
             [sk EXCEPT !.rhythm_complexity =
                 RhythmComplexity_process(sk.rhythm_complexity, curr, objects)]

\* the number of difficulty objects the skill named name has processed
skill_position(sk, name) ==
    IF name = "rhythm_complexity" THEN sk.rhythm_complexity.note_index
    ELSE Len(sk[name].object_strains)

OsuSkills_process(sk, curr, objects) ==
    [aim |-> StrainSkill_process(sk.aim, curr, "Aim"),
     raw_aim |-> StrainSkill_process(sk.raw_aim, curr, "Aim"),
     jump_aim |-> StrainSkill_process(sk.jump_aim, curr, "Aim"),
     flow_aim |-> StrainSkill_process(sk.flow_aim, curr, "Aim"),
     speed |-> StrainSkill_process(sk.speed, curr, "Speed"),
     stamina |-> StrainSkill_process(sk.stamina, curr, "Stamina"),
     rhythm_complexity |->
         RhythmComplexity_process(sk.rhythm_complexity, curr, objects)]

(***************************************************************************)
(* src/osu/difficulty/mod.rs                                               *)
(***************************************************************************)
\* the mutant forgets that the first hit object has no difficulty object
take_diff_objects_all(objects, take_) == Min(Len(objects), take_)

take_diff_objects(objects, take_) == Max(Min(Len(objects), take_) - 1, 0)

\* the loop of calculate over the first n difficulty objects
RECURSIVE process_objects(_, _, _)
process_objects(sk, objects, n) ==
    IF n = 0 THEN sk
    ELSE OsuSkills_process(process_objects(sk, objects, n - 1),
                           objects[n], objects)

\* the factors that eval applies to the aim and the speed rating
\* the mutant keeps the speed rating under RX
mod_speed_multiplier_keep(m) ==
    IF Rx(m) THEN <<1, 1>> ELSE IF Ap(m) THEN <<1, 2>> ELSE <<1, 1>>

mod_speed_multiplier(m) ==
    IF Rx(m) THEN <<0, 1>> ELSE IF Ap(m) THEN <<1, 2>> ELSE <<1, 1>>

mod_aim_multiplier(m) ==
    IF Rx(m) THEN <<9, 10>> ELSE IF Ap(m) THEN <<0, 1>> ELSE <<1, 1>>

\* sqrt(max(aim value - raw aim value, 0)): the aim strains are the raw
\* aim strains times small_circle_bonus > 1
precision_difficulty(aim_difficulty_value, raw_aim_difficulty_value) ==
    IF aim_difficulty_value = NaN \/ raw_aim_difficulty_value = NaN THEN NaN
    ELSE IF raw_aim_difficulty_value > 0 /\ aim_difficulty_value > 0 THEN 1
    ELSE 0

\* the mutant takes the speed rating for the tapping term
tapping_rating_speed(speed_rating, stamina_rating) == speed_rating

\* speed_rating.max(stamina_rating) of the star rating
tapping_rating(speed_rating, stamina_rating) ==
    SgnMax(speed_rating, stamina_rating)

\* the difficulty value that eval hands to count_top_weighted_strains as
\* the target, for each stored difficult strain count
difficult_strain_count_targets(sk) ==
    [aim |-> cloned_difficulty_value(sk.aim),
     jump_aim |-> cloned_difficulty_value(sk.raw_aim),
     flow_aim |-> cloned_difficulty_value(sk.flow_aim),
     speed |-> cloned_difficulty_value(sk.speed),
     stamina |-> cloned_difficulty_value(sk.stamina)]

eval(a, m, sk) ==
    LET aim_difficulty_value == cloned_difficulty_value(sk.aim)
        raw_aim_difficulty_value == cloned_difficulty_value(sk.raw_aim)
        jump_aim_difficulty_value == cloned_difficulty_value(sk.jump_aim)
        flow_aim_difficulty_value == cloned_difficulty_value(sk.flow_aim)
        speed_difficulty_value == cloned_difficulty_value(sk.speed)
        stamina_difficulty_value == cloned_difficulty_value(sk.stamina)
        rhythm_difficulty_value ==
            RhythmComplexity_cloned_difficulty_value(sk.rhythm_complexity)
        aim_rating0 == SgnPowf(aim_difficulty_value)
        aim_rating1 == IF Td(m) THEN SgnPowf(aim_rating0) ELSE aim_rating0
        speed_rating0 == SgnPowf(speed_difficulty_value)
        aim_rating == SgnMul(aim_rating1, SgnOf(mod_aim_multiplier(m)[1]))
        speed_rating == SgnMul(speed_rating0, SgnOf(mod_speed_multiplier(m)[1]))
        stamina_rating == SgnPowf(stamina_difficulty_value)
        targets == difficult_strain_count_targets(sk)
    IN  [a EXCEPT
            !.aim = aim_rating,
            !.aim_difficult_slider_count = get_difficult_sliders(sk.aim),
            !.jump = SgnPowf(jump_aim_difficulty_value),
            !.flow = SgnPowf(flow_aim_difficulty_value),
            !.precision =
                SgnPowf(precision_difficulty(aim_difficulty_value,
                                             raw_aim_difficulty_value)),
            !.speed = speed_rating,
            !.stamina = stamina_rating,
            !.accuracy = SgnPowf(rhythm_difficulty_value),
            !.aim_difficult_strain_count =
                count_top_weighted_strains(sk.aim, targets.aim),
            !.jump_aim_difficult_strain_count =
                count_top_weighted_strains(sk.jump_aim, targets.jump_aim),
            !.flow_aim_difficult_strain_count =
                count_top_weighted_strains(sk.flow_aim, targets.flow_aim),
            !.speed_difficult_strain_count =
                count_top_weighted_strains(sk.speed, targets.speed),
            !.stamina_difficult_strain_count =
                count_top_weighted_strains(sk.stamina, targets.stamina),
            !.stars = SgnPowf(SgnAdd(aim_rating,
                                     tapping_rating(speed_rating,
                                                    stamina_rating)))]

(***************************************************************************)
(* src/osu/strains.rs                                                      *)
(***************************************************************************)
\* the mutant exports the saved peaks without the peak of the current section
strains_saved_peaks(sk) ==
    [aim |-> sk.aim.strain_peaks,
     raw_aim |-> sk.raw_aim.strain_peaks,
     jump_aim |-> sk.jump_aim.strain_peaks,
     flow_aim |-> sk.flow_aim.strain_peaks,
     speed |-> sk.speed.strain_peaks,
     stamina |-> sk.stamina.strain_peaks]

strains(sk) ==
    [aim |-> get_current_strain_peaks(sk.aim),
     raw_aim |-> get_current_strain_peaks(sk.raw_aim),
     jump_aim |-> get_current_strain_peaks(sk.jump_aim),
     flow_aim |-> get_current_strain_peaks(sk.flow_aim),
     speed |-> get_current_strain_peaks(sk.speed),
     stamina |-> get_current_strain_peaks(sk.stamina)]

(***************************************************************************)
(* The inputs of the model.                                                *)
(***************************************************************************)
\* get_passed_objects without a limit
TakeAll == MaxObjects + 1

\* the Difficulty configurations and the great hit window of the map
Difficulties ==
    {[mods |-> {}, clock_rate |-> <<1, 1>>, take |-> TakeAll,
      lazer |-> FALSE, od_great |-> 195],
     [mods |-> {"RX"}, clock_rate |-> <<1, 1>>, take |-> TakeAll,
      lazer |-> TRUE, od_great |-> 195],
     [mods |-> {"AP"}, clock_rate |-> <<3, 2>>, take |-> TakeAll,
      lazer |-> FALSE, od_great |-> 795],
     [mods |-> {"RX", "AP"}, clock_rate |-> <<3, 4>>, take |-> TakeAll,
      lazer |-> TRUE, od_great |-> 195],
     [mods |-> {"TD", "SO", "NF"}, clock_rate |-> <<1, 1>>, take |-> 2,
      lazer |-> FALSE, od_great |-> -5],
     [mods |-> {"HD", "FL", "CL"}, clock_rate |-> <<3, 2>>, take |-> 0,
      lazer |-> TRUE, od_great |-> 795],
     [mods |-> {"SO"}, clock_rate |-> <<3, 4>>, take |-> 1,
      lazer |-> TRUE, od_great |-> 195]}

ScoreStates ==
    {s \in [n300 : 0..MaxHits, n100 : 0..MaxHits, n50 : 0..MaxHits,
            misses : 0..MaxHits, max_combo : 0..MaxCombo] :
        total_hits(s) <= MaxHits}

\* the score states of the performance calculation that follows a
\* difficulty calculation
MapScoreStates(a) ==
    {s \in [n300 : 0..1, n100 : 0..1, n50 : {0}, misses : 0..1,
            max_combo : 0..1] :
        /\ total_hits(s) <= 1
        /\ s.max_combo = Min(s.n300 + s.n100, a.max_combo)}

DefaultScoreState ==
    [n300 |-> 0, n100 |-> 0, n50 |-> 0, misses |-> 0, max_combo |-> 0]

(***************************************************************************)
(* The difficulty calculation followed by a performance calculation.       *)
(***************************************************************************)
Init ==
    /\ osu_objects \in Maps
    /\ \E d \in Difficulties :
          /\ mods = d.mods
          /\ clock_rate = d.clock_rate
          /\ take = d.take
          /\ lazer = d.lazer
          /\ od_great = d.od_great
    /\ attrs = DefaultDifficultyAttributes
    /\ diff_objects = <<>>
    /\ skills = OsuSkills_new(mods, lazer)
    /\ processed = 0
    /\ state = DefaultScoreState
    /\ using_classic_slider_acc = FALSE
    /\ perf = DefaultPerformanceAttributes
    /\ pc = "start"

\* DifficultyValues::calculate up to its loop: OsuDifficultySetup::new,
\* convert_objects, create_difficulty_objects, OsuSkills::new
Setup ==
    /\ pc = "start"
    /\ attrs' = convert_objects(
                    [DefaultDifficultyAttributes EXCEPT !.great_hit_window = od_great],
                    osu_objects, take)
    /\ osu_objects' = computed_objects(osu_objects, take)
    /\ diff_objects' = create_difficulty_objects(osu_objects, take, clock_rate)
    /\ skills' = OsuSkills_new(mods, lazer)
    /\ processed' = 0
    /\ pc' = "process"
    /\ UNCHANGED <<mods, clock_rate, take, lazer, od_great, state,
                   using_classic_slider_acc, perf>>

\* one iteration of the loop of DifficultyValues::calculate
Process ==
    /\ pc = "process"
    /\ processed < Min(take_diff_objects(osu_objects, take), Len(diff_objects))
    /\ skills' = OsuSkills_process(skills, diff_objects[processed + 1], diff_objects)
    /\ processed' = processed + 1
    /\ UNCHANGED <<osu_objects, mods, clock_rate, take, lazer, od_great, attrs,
                   diff_objects, state, using_classic_slider_acc, perf, pc>>

\* DifficultyValues::eval after the loop
Eval ==
    /\ pc = "process"
    /\ processed = Min(take_diff_objects(osu_objects, take), Len(diff_objects))
    /\ attrs' = eval(attrs, mods, skills)
    /\ pc' = "evaluated"
    /\ UNCHANGED <<osu_objects, mods, clock_rate, take, lazer, od_great,
                   diff_objects, skills, processed, state,
                   using_classic_slider_acc, perf>>

\* OsuPerformanceCalculator::new(...).calculate() on the attributes
Performance ==
    /\ pc = "evaluated"
    /\ \E s \in MapScoreStates(attrs), classic \in BOOLEAN :
          /\ state' = s
          /\ using_classic_slider_acc' = classic
          /\ perf' = calculate(attrs, mods, s, classic)
    /\ pc' = "done"
    /\ UNCHANGED <<osu_objects, mods, clock_rate, take, lazer, od_great, attrs,
                   diff_objects, skills, processed>>

Next == Setup \/ Process \/ Eval \/ Performance

Spec == Init /\ [][Next]_vars

(***************************************************************************)
(* The performance calculator on its own: calculate on bounded difficulty  *)
(* attributes, mods and score states.                                      *)
(***************************************************************************)
\* which of the ratings are non-zero
RatingProfiles ==
    {[aim |-> 0, jump |-> 0, flow |-> 0, precision |-> 0, speed |-> 0,
      stamina |-> 0, accuracy |-> 0],
     [aim |-> 1, jump |-> 1, flow |-> 0, precision |-> 1, speed |-> 0,
      stamina |-> 0, accuracy |-> 0],
     [aim |-> 0, jump |-> 0, flow |-> 0, precision |-> 0, speed |-> 1,
      stamina |-> 0, accuracy |-> 0],
     [aim |-> 0, jump |-> 0, flow |-> 0, precision |-> 0, speed |-> 0,
      stamina |-> 1, accuracy |-> 0],
     [aim |-> 0, jump |-> 0, flow |-> 0, precision |-> 0, speed |-> 0,
      stamina |-> 0, accuracy |-> 1],
     [aim |-> 0, jump |-> 1, flow |-> 1, precision |-> 1, speed |-> 0,
      stamina |-> 0, accuracy |-> 0],
     [aim |-> 1, jump |-> 1, flow |-> 1, precision |-> 1, speed |-> 1,
      stamina |-> 1, accuracy |-> 1]}

\* mods with a great hit window: overall difficulty 0, 10 and 13.33
ModsAndWindows ==
    {[mods |-> {}, od_great |-> 195],
     [mods |-> {"SO"}, od_great |-> 195],
     [mods |-> {"RX"}, od_great |-> 795],
     [mods |-> {"RX"}, od_great |-> 195],
     [mods |-> {"RX"}, od_great |-> -5],
     [mods |-> {"NF", "SO", "RX"}, od_great |-> 195]}

PerformanceInputs ==
    {[DefaultDifficultyAttributes EXCEPT
         !.aim = r.aim, !.jump = r.jump, !.flow = r.flow,
         !.precision = r.precision, !.speed = r.speed,
         !.stamina = r.stamina, !.accuracy = r.accuracy,
         !.aim_difficult_strain_count = r.aim,
         !.jump_aim_difficult_strain_count = r.jump,
         !.flow_aim_difficult_strain_count = r.flow,
         !.speed_difficult_strain_count = r.speed,
         !.stamina_difficult_strain_count = r.stamina,
         !.stars = SgnAdd(r.aim, SgnMax(r.speed, r.stamina)),
         !.n_circles = 1, !.n_sliders = ns, !.n_spinners = nsp,
         !.max_combo = mc] :
        r \in RatingProfiles, ns \in {0, 1}, nsp \in {0, 2}, mc \in 0..MaxCombo}

InitPerf ==
    /\ osu_objects = <<>>
    /\ clock_rate = <<1, 1>>
    /\ take = TakeAll
    /\ lazer = FALSE
    /\ \E a \in PerformanceInputs, mw \in ModsAndWindows :
          /\ mods = mw.mods
          /\ od_great = mw.od_great
          /\ attrs = [a EXCEPT !.great_hit_window = mw.od_great]
    /\ diff_objects = <<>>
    /\ skills = OsuSkills_new(mods, lazer)
    /\ processed = 0
    /\ state = DefaultScoreState
    /\ using_classic_slider_acc = FALSE
    /\ perf = DefaultPerformanceAttributes
    /\ pc = "evaluated"

\* OsuPerformanceCalculator::new(...).calculate()
Calculate ==
    /\ pc = "evaluated"
    /\ \E s \in ScoreStates, classic \in BOOLEAN :
          /\ state' = s
          /\ using_classic_slider_acc' = classic
          /\ perf' = calculate(attrs, mods, s, classic)
    /\ pc' = "done"
    /\ UNCHANGED <<osu_objects, mods, clock_rate, take, lazer, od_great, attrs,
                   diff_objects, skills, processed>>

NextPerf == Calculate

SpecPerf == InitPerf /\ [][NextPerf]_vars

(***************************************************************************)
(* The construction of the difficulty objects on its own, on maps in which *)
(* consecutive hit objects may share a start time.                         *)
(***************************************************************************)
\* start_time of an object minus start_time of the object before it
StackedGaps == {0} \cup Gaps

RECURSIVE StackedMapsOfLen(_)
StackedMapsOfLen(n) ==
    IF n = 0 THEN {<<>>}
    ELSE {Append(m, OsuObject(sh, IF m = <<>> THEN 0
                                  ELSE m[Len(m)].start_time + g)) :
              m \in StackedMapsOfLen(n - 1), sh \in Shapes, g \in StackedGaps}

StackedMaps == UNION {StackedMapsOfLen(n) : n \in 0..MaxObjects}

InitObjects ==
    /\ osu_objects \in StackedMaps
    /\ \E d \in Difficulties :
          /\ mods = d.mods
          /\ clock_rate = d.clock_rate
          /\ take = d.take
          /\ lazer = d.lazer
          /\ od_great = d.od_great
    /\ attrs = DefaultDifficultyAttributes
    /\ diff_objects = <<>>
    /\ skills = OsuSkills_new(mods, lazer)
    /\ processed = 0
    /\ state = DefaultScoreState
    /\ using_classic_slider_acc = FALSE
    /\ perf = DefaultPerformanceAttributes
    /\ pc = "start"

\* DifficultyValues::calculate up to its loop
NextObjects == Setup

SpecObjects == InitObjects /\ [][NextObjects]_vars

(***************************************************************************)
(* compute_slider_cursor_pos on its own: one slider, whose nested objects  *)
(* and whose two lazy fields are drawn from small sets, and to which the   *)
(* pass is applied MaxApplications times.                                  *)
(***************************************************************************)
MaxNested == 2
MaxApplications == 2

\* positions of nested objects
NestedPoints == {0, 295, 600}

RECURSIVE NestedOfLen(_)
NestedOfLen(n) ==
    IF n = 0 THEN {<<>>}
    ELSE {Append(ns, q) : ns \in NestedOfLen(n - 1), q \in NestedPoints}

SliderInputs ==
    {[kind |-> "Slider", start_time |-> 0, pos |-> q, end_time |-> 900,
      nested_objects |-> ns, lazy_end_pos |-> IF e = 0 THEN q ELSE e,
      lazy_travel_dist |-> d] :
         q \in {0, 256},
         ns \in UNION {NestedOfLen(n) : n \in 0..MaxNested},
         e \in {0, 77}, d \in {0, 7}}

InitSlider ==
    /\ \E h \in SliderInputs : osu_objects = <<h>>
    /\ mods = {}
    /\ clock_rate = <<1, 1>>
    /\ take = TakeAll
    /\ lazer = FALSE
    /\ od_great = 195
    /\ attrs = DefaultDifficultyAttributes
    /\ diff_objects = <<>>
    /\ skills = OsuSkills_new(mods, lazer)
    /\ processed = 0
    /\ state = DefaultScoreState
    /\ using_classic_slider_acc = FALSE
    /\ perf = DefaultPerformanceAttributes
    /\ pc = "lazy"

\* one call of compute_slider_cursor_pos on the slider; processed counts
\* the calls
ComputeSliderCursorPos ==
    /\ pc = "lazy"
    /\ processed < MaxApplications
    /\ osu_objects' = <<compute_slider_cursor_pos(osu_objects[1])>>
    /\ processed' = processed + 1
    /\ UNCHANGED <<mods, clock_rate, take, lazer, od_great, attrs,
                   diff_objects, skills, state, using_classic_slider_acc,
                   perf, pc>>

NextSlider == ComputeSliderCursorPos

SpecSlider == InitSlider /\ [][NextSlider]_vars

(***************************************************************************)
(* The skills as a parallel-for: the difficulty objects are built, and     *)
(* each step lets one skill process its next difficulty object.            *)
(***************************************************************************)
ParObjects == 3

SkillNames ==
    {"aim", "raw_aim", "jump_aim", "flow_aim", "speed", "stamina",
     "rhythm_complexity"}

\* the maps: a circle followed by circles, by sliders, or by sliders and
\* circles in turn, 36 ms apart; or by circles one preempt time apart, or
\* two preempt times apart
ParPatterns == {"circles", "sliders", "alternating", "spaced", "sparse"}

ParGap(pattern) ==
    IF pattern = "spaced" THEN time_preempt
    ELSE IF pattern = "sparse" THEN 2 * time_preempt
    ELSE 360

ParShape(pattern, i) ==
    IF i = 1 THEN [kind |-> "Circle", pos |-> 0, tail |-> 0, duration |-> 0]
    ELSE IF pattern = "sliders" \/ (pattern = "alternating" /\ i % 2 = 0)
    THEN [kind |-> "Slider", pos |-> 0, tail |-> 295, duration |-> 900]
    ELSE [kind |-> "Circle", pos |-> 256, tail |-> 0, duration |-> 0]

ParMaps ==
    {[i \in 1..ParObjects |->
          OsuObject(ParShape(pattern, i), (i - 1) * ParGap(pattern))] :
         pattern \in ParPatterns}

InitPar ==
    /\ mods = {}
    /\ clock_rate = <<1, 1>>
    /\ take = TakeAll + 1
    /\ lazer = TRUE
    /\ od_great = 195
    /\ \E m \in ParMaps :
          /\ osu_objects = computed_objects(m, take)
          /\ diff_objects = create_difficulty_objects(m, take, clock_rate)
          /\ attrs = convert_objects(
                         [DefaultDifficultyAttributes EXCEPT
                             !.great_hit_window = od_great], m, take)
    /\ skills = OsuSkills_new(mods, lazer)
    /\ processed = 0
    /\ state = DefaultScoreState
    /\ using_classic_slider_acc = FALSE
    /\ perf = DefaultPerformanceAttributes
    /\ pc = "parallel"

\* one skill processes its next difficulty object
ProcessSkill ==
    /\ pc = "parallel"
    /\ \E name \in SkillNames :
          /\ skill_position(skills, name)
                 < Min(take_diff_objects(osu_objects, take), Len(diff_objects))
          /\ skills' = process_skill(
                           skills, name,
                           diff_objects[skill_position(skills, name) + 1],
                           diff_objects)
    /\ UNCHANGED <<osu_objects, mods, clock_rate, take, lazer, od_great, attrs,
                   diff_objects, processed, state, using_classic_slider_acc,
                   perf, pc>>

NextPar == ProcessSkill

SpecPar == InitPar /\ [][NextPar]_vars

(***************************************************************************)
(* RhythmComplexity on its own, on maps of stacked objects 60 ms or 90 ms  *)
(* apart: gap ratios of 0.667, 1 and 1.5 at a flow of 1.                   *)
(***************************************************************************)
MaxRhythmObjects == 4

RhythmShapes ==
    {[kind |-> "Circle", pos |-> 0, tail |-> 0, duration |-> 0],
     [kind |-> "Slider", pos |-> 0, tail |-> 0, duration |-> 700],
     [kind |-> "Spinner", pos |-> 0, tail |-> 0, duration |-> 300]}

RhythmGaps == {600, 900}

RECURSIVE RhythmMapsOfLen(_)
RhythmMapsOfLen(n) ==
    IF n = 0 THEN {<<>>}
    ELSE {Append(m, OsuObject(sh, IF m = <<>> THEN 0
                                  ELSE m[Len(m)].start_time + g)) :
              m \in RhythmMapsOfLen(n - 1), sh \in RhythmShapes,
              g \in RhythmGaps}

RhythmMaps == UNION {RhythmMapsOfLen(n) : n \in 1..MaxRhythmObjects}

InitRhythm ==
    /\ mods = {}
    /\ clock_rate = <<1, 1>>
    /\ take = MaxRhythmObjects + 2
    /\ lazer \in BOOLEAN
    /\ od_great = 195
    /\ \E m \in RhythmMaps :
          /\ osu_objects = computed_objects(m, take)
          /\ diff_objects = create_difficulty_objects(m, take, clock_rate)
          /\ attrs = convert_objects(
                         [DefaultDifficultyAttributes EXCEPT
                             !.great_hit_window = od_great], m, take)
    /\ skills = OsuSkills_new(mods, lazer)
    /\ processed = 0
    /\ state = DefaultScoreState
    /\ using_classic_slider_acc = FALSE
    /\ perf = DefaultPerformanceAttributes
    /\ pc = "rhythm"

\* RhythmComplexity::process on the next difficulty object
ProcessRhythm ==
    /\ pc = "rhythm"
    /\ processed < Min(take_diff_objects(osu_objects, take), Len(diff_objects))
    /\ skills' = [skills EXCEPT !.rhythm_complexity =
                     RhythmComplexity_process(@, diff_objects[processed + 1],
                                              diff_objects)]
    /\ processed' = processed + 1
    /\ UNCHANGED <<osu_objects, mods, clock_rate, take, lazer, od_great, attrs,
                   diff_objects, state, using_classic_slider_acc, perf, pc>>

NextRhythm == ProcessRhythm

SpecRhythm == InitRhythm /\ [][NextRhythm]_vars

(***************************************************************************)
(* The four Aim skills in step, on maps of circles on a line: the angles   *)
(* are 0 at a reversal and pi on a straight continuation.                  *)
(***************************************************************************)
MaxAimObjects == 4

AimPositions == {0, 128, 256}

AimGaps == {360, 1800}

RECURSIVE AimMapsOfLen(_)
AimMapsOfLen(n) ==
    IF n = 0 THEN {<<>>}
    ELSE {Append(m, OsuObject([kind |-> "Circle", pos |-> x, tail |-> 0,
                               duration |-> 0],
                              IF m = <<>> THEN 0
                              ELSE m[Len(m)].start_time + g)) :
              m \in AimMapsOfLen(n - 1), x \in AimPositions, g \in AimGaps}

AimMaps == UNION {AimMapsOfLen(n) : n \in 2..MaxAimObjects}

InitAim ==
    /\ mods = {}
    /\ clock_rate = <<1, 1>>
    /\ take = MaxAimObjects + 2
    /\ lazer = TRUE
    /\ od_great = 195
    /\ \E m \in AimMaps :
          /\ osu_objects = computed_objects(m, take)
          /\ diff_objects = create_difficulty_objects(m, take, clock_rate)
          /\ attrs = convert_objects(
                         [DefaultDifficultyAttributes EXCEPT
                             !.great_hit_window = od_great], m, take)
    /\ skills = OsuSkills_new(mods, lazer)
    /\ processed = 0
    /\ state = DefaultScoreState
    /\ using_classic_slider_acc = FALSE
    /\ perf = DefaultPerformanceAttributes
    /\ pc = "aim"

\* the four Aim skills process the next difficulty object
ProcessAim ==
    /\ pc = "aim"
    /\ processed < Min(take_diff_objects(osu_objects, take), Len(diff_objects))
    /\ LET curr == diff_objects[processed + 1]
       IN  skills' = [skills EXCEPT
                         !.aim = StrainSkill_process(@, curr, "Aim"),
                         !.raw_aim = StrainSkill_process(@, curr, "Aim"),
                         !.jump_aim = StrainSkill_process(@, curr, "Aim"),
                         !.flow_aim = StrainSkill_process(@, curr, "Aim")]
    /\ processed' = processed + 1
    /\ UNCHANGED <<osu_objects, mods, clock_rate, take, lazer, od_great, attrs,
                   diff_objects, state, using_classic_slider_acc, perf, pc>>

NextAim == ProcessAim

SpecAim == InitAim /\ [][NextAim]_vars

(***************************************************************************)
(* Properties of the performance calculator (checked under SpecPerf).      *)
(***************************************************************************)
Done == pc = "done"

AllRatingsZero(a) ==
    a.aim = 0 /\ a.speed = 0 /\ a.stamina = 0 /\ a.accuracy = 0

full_combo_threshold(a) == Rat(10 * a.max_combo - a.n_sliders, 10)

\* C1: calculate on a score state with total_hits = 0 returns every pp
\* field and effective_miss_count as 0 and the difficulty equal to the
\* input attributes.
C1_ZeroHitsGiveZeroResult ==
    (Done /\ total_hits(state) = 0) =>
        /\ perf.pp = 0 /\ perf.pp_aim = 0 /\ perf.pp_jump_aim = 0
        /\ perf.pp_flow_aim = 0 /\ perf.pp_precision = 0 /\ perf.pp_speed = 0
        /\ perf.pp_stamina = 0 /\ perf.pp_acc = 0
        /\ perf.effective_miss_count = RatInt(0)
        /\ perf.difficulty = attrs

C1_Witness ==
    /\ Done /\ total_hits(state) = 0
    /\ attrs.aim = 1 /\ attrs.accuracy = 1 /\ state.max_combo > 0

\* C2, as the specification states it: pp is non-negative, and pp = 0
\* exactly when total_hits = 0 or the aim, speed, stamina and accuracy
\* ratings are all 0.
C2_Original ==
    Done =>
        /\ perf.pp \in {0, 1}
        /\ perf.pp = 0 <=> (total_hits(state) = 0 \/ AllRatingsZero(attrs))

\* C2, as the code has it: pp = 0 exactly when total_hits = 0, or the aim,
\* speed, stamina and accuracy ratings are all 0, or SO is set and
\* n_spinners = total_hits; pp is negative exactly when SO is set,
\* n_spinners > total_hits > 0 and one of those ratings is not 0; otherwise
\* pp is positive.
C2_PpSign ==
    Done =>
        LET scored == total_hits(state) > 0 /\ ~AllRatingsZero(attrs)
        IN  /\ perf.pp \in {-1, 0, 1}
            /\ perf.pp = 0 <=>
                   \/ ~scored
                   \/ So(mods) /\ attrs.n_spinners = total_hits(state)
            /\ perf.pp = -1 <=>
                   scored /\ So(mods) /\ attrs.n_spinners > total_hits(state)

C2_Witness ==
    /\ Done /\ So(mods) /\ attrs.accuracy = 1 /\ attrs.stamina = 1
    /\ total_hits(state) = 2 /\ attrs.n_spinners = 2 /\ perf.pp = 0

\* C7, as the specification states it: with sliders, classic slider
\* accuracy and a score max_combo below the full combo threshold,
\* effective_miss_count is strictly greater than the value the same score
\* gets without classic slider accuracy.
C7_Original ==
    (/\ Done /\ total_hits(state) > 0 /\ using_classic_slider_acc
     /\ attrs.n_sliders > 0
     /\ RatLt(RatInt(state.max_combo), full_combo_threshold(attrs)))
    => RatLt(calculate(attrs, mods, state, FALSE).effective_miss_count,
             perf.effective_miss_count)

\* C7, as the code has it: in that case effective_miss_count is never
\* smaller than the value without classic slider accuracy, and without RX
\* it is strictly greater exactly when
\* min(full_combo_threshold / max(max_combo, 1), total_hits - n300) > misses.
C7_ClassicNotSmaller ==
    (/\ Done /\ total_hits(state) > 0 /\ using_classic_slider_acc
     /\ attrs.n_sliders > 0
     /\ RatLt(RatInt(state.max_combo), full_combo_threshold(attrs)))
    => LET other == calculate(attrs, mods, state, FALSE).effective_miss_count
           estimate ==
               RatMin(RatDivInt(full_combo_threshold(attrs),
                                Max(state.max_combo, 1)),
                      RatInt(total_hits(state) - state.n300))
       IN  /\ RatLe(other, perf.effective_miss_count)
           /\ ~Rx(mods) =>
                  (RatLt(other, perf.effective_miss_count)
                       <=> RatLt(RatInt(state.misses), estimate))

C7_Witness ==
    /\ Done /\ using_classic_slider_acc /\ attrs.n_sliders > 0 /\ ~Rx(mods)
    /\ RatLt(RatInt(state.max_combo), full_combo_threshold(attrs))
    /\ state.misses = 1 /\ state.n100 = 0 /\ state.n50 = 0 /\ state.n300 = 1
    /\ perf.effective_miss_count = RatInt(1)

\* C8: for total_hits > 0, under every mod combination and either slider
\* accuracy mode, misses <= effective_miss_count <= total_hits; the
\* combo-based estimate never exceeds count_mistakes = total_hits - n300.
C8_EffectiveMissCountBounds ==
    (Done /\ total_hits(state) > 0) =>
        /\ RatLe(RatInt(state.misses), perf.effective_miss_count)
        /\ RatLe(perf.effective_miss_count, RatInt(total_hits(state)))
        /\ RatLe(calculate_effective_miss_count(
                     attrs, state.max_combo, state.misses,
                     total_hits(state) - state.n300),
                 RatInt(total_hits(state) - state.n300))

C8_Witness ==
    /\ Done /\ Rx(mods) /\ using_classic_slider_acc /\ attrs.n_sliders > 0
    /\ state.n100 = 1 /\ state.n50 = 1 /\ state.max_combo = 0
    /\ attrs.max_combo = MaxCombo
    /\ perf.effective_miss_count = RatInt(total_hits(state))

(***************************************************************************)
(* Properties of the difficulty calculation and of the performance         *)
(* calculation that follows it (checked under Spec).                       *)
(***************************************************************************)
Evaluated == pc \in {"evaluated", "done"}

\* C3: under every mod combination that contains RX, eval stores speed
\* rating 0 and the performance calculation yields pp_speed = 0, for every
\* score state.
C3_RelaxZeroesSpeed ==
    (Rx(mods) /\ Evaluated) =>
        /\ attrs.speed = 0
        /\ Done => perf.pp_speed = 0

C3_Witness ==
    /\ Done /\ Rx(mods) /\ total_hits(state) > 0
    /\ cloned_difficulty_value(skills.speed) = 1
    /\ perf.pp_stamina = 1

\* C4, as the specification states it: under every mod combination that
\* contains AP, RX included, eval stores aim rating 0 and a halved speed
\* rating, and pp_aim, pp_jump_aim, pp_flow_aim and pp_precision are 0.
C4_Original ==
    (Ap(mods) /\ Evaluated) =>
        /\ attrs.aim = 0
        /\ mod_speed_multiplier(mods) = <<1, 2>>
        /\ Done => /\ perf.pp_aim = 0 /\ perf.pp_jump_aim = 0
                   /\ perf.pp_flow_aim = 0 /\ perf.pp_precision = 0

C6_NoSliders ==
    (Evaluated /\ attrs.n_sliders = 0) =>
        /\ attrs.aim_difficult_slider_count = 0
        /\ Done => calculate(attrs, mods, state, TRUE).effective_miss_count
                       = calculate(attrs, mods, state, FALSE).effective_miss_count

C6_Witness ==
    /\ Done /\ attrs.n_sliders = 0 /\ using_classic_slider_acc
    /\ attrs.aim = 1 /\ processed >= 2
    /\ state.n100 = 1 /\ state.max_combo < attrs.max_combo

peak_count_estimate ==
    CeilDiv(diff_objects[processed].start_time - diff_objects[1].start_time,
            SECTION_LEN) + 1

ExportedSkills == {"aim", "raw_aim", "jump_aim", "flow_aim", "speed", "stamina"}

\* C9: for every skill that strains() exports, after processing difficulty
\* objects with non-decreasing start times the number of section peaks is
\* ceil((last start_time - first start_time) / 400) + 1, up to 1 more or
\* 1 less.
C9_SectionPeakCount ==
    (pc # "start" /\ processed >= 1) =>
        \A name \in ExportedSkills :
            Abs(Len(strains(skills)[name]) - peak_count_estimate) <= 1

C9_Witness ==
    /\ processed >= 2
    /\ Len(strains(skills).speed) = 3
    /\ peak_count_estimate = 4

\* C10: after run, every difficulty object has strain_time >= 30 ms,
\* gap_time >= 30 ms, and last_two_strain_time either infinite (no second
\* predecessor) or >= 60 ms.
C10_StrainTimeFloors ==
    \A i \in 1..Len(diff_objects) :
        /\ diff_objects[i].strain_time >= 300
        /\ diff_objects[i].gap_time >= 300
        /\ \/ diff_objects[i].last_two_strain_time = Infinity
           \/ diff_objects[i].last_two_strain_time >= 600

C10_Witness ==
    /\ Len(diff_objects) >= 2
    /\ diff_objects[1].strain_time = 300
    /\ diff_objects[1].last_two_strain_time = Infinity
    /\ diff_objects[2].last_two_strain_time = 600
    /\ diff_objects[2].gap_time = 300

(***************************************************************************)
(* Properties of the difficulty objects (checked under SpecObjects unless  *)
(* said otherwise).  diff_objects[i] is built from osu_objects[i + 1]; its *)
(* last object is osu_objects[i].                                          *)
(***************************************************************************)
\* C11, as the specification states it: after run every difficulty object
\* has delta_time > 0, consecutive objects that share a start time
\* included.
C11_Original ==
    \A i \in 1..Len(diff_objects) : diff_objects[i].delta_time > 0

\* C11, as the code has it: on non-decreasing start times every difficulty
\* object has delta_time >= 0, and delta_time = 0 exactly when the object
\* shares its start time with the object before it; strain_time, which is
\* clamped to MIN_DELTA_TIME, stays positive.
C11_DeltaTimeNonNegative ==
    \A i \in 1..Len(diff_objects) :
        /\ diff_objects[i].delta_time >= 0
        /\ diff_objects[i].delta_time = 0
               <=> osu_objects[i + 1].start_time = osu_objects[i].start_time
        /\ diff_objects[i].strain_time > 0

C11_Witness ==
    /\ Len(diff_objects) >= 2
    /\ diff_objects[1].delta_time = 0
    /\ is_slider(osu_objects[1])
    /\ diff_objects[2].delta_time > 0

\* the values of [0, 1] as the model tracks them
UnitValues == {"0", "1", "?"}

\* a <= b for values of [0, 1], where the model decides it
ULe(a, b) == a = "0" \/ b = "1"

C13_AngleAbsentOnlyAtFirst ==
    \A i \in 1..Len(diff_objects) :
        LET d == diff_objects[i]
        IN  /\ d.idx = i - 1
            /\ (d.angle = <<>>) <=> (d.idx = 0)
            /\ d.angle # <<>> => (Len(d.angle) = 1 /\ d.angle[1] >= 0
                                   /\ d.angle[1] <= 180)

C13_Witness ==
    /\ Len(diff_objects) >= 2
    /\ diff_objects[1].angle = <<>>
    /\ diff_objects[2].angle = <<180>>
    /\ is_slider(diff_objects[1].base)

(***************************************************************************)
(* Properties of DifficultyValues::calculate (checked under Spec).         *)
(***************************************************************************)
\* C14: create_difficulty_objects returns the empty sequence for no hit
\* objects or take = 0; otherwise it returns one difficulty object per hit
\* object after the first, the k-th with idx = k - 1 and made by run() with
\* the hit object before it as last and the one before that (if any) as
\* last_last.  calculate then feeds exactly min(N, take) - 1 (saturating at
\* 0) of them to the skills, in increasing idx order.
C14_DifficultyObjectsPerHitObject ==
    pc # "start" =>
        LET N == Len(osu_objects)
        IN  /\ (N = 0 \/ take = 0) => diff_objects = <<>>
            /\ (N > 0 /\ take > 0) => Len(diff_objects) = N - 1
            /\ (N > 0 /\ take > 0 /\ pc = "process" /\ processed = 0) =>
                  /\ \A k \in 1..(N - 1) :
                        /\ diff_objects[k].idx = k - 1
                        /\ diff_objects[k] =
                               run(new(osu_objects[k + 1], k - 1),
                                   osu_objects[k],
                                   IF k >= 2 THEN <<osu_objects[k - 1]>> ELSE <<>>,
                                   IF k >= 2 THEN <<diff_objects[k - 1]>> ELSE <<>>,
                                   IF k >= 3 THEN <<diff_objects[k - 2]>> ELSE <<>>,
                                   clock_rate)
            /\ processed <= Max(Min(N, take) - 1, 0)
            /\ processed <= Len(diff_objects)
            /\ pc = "evaluated" =>
                  /\ processed = Max(Min(N, take) - 1, 0)
                  /\ skills = process_objects(OsuSkills_new(mods, lazer),
                                              diff_objects, processed)
                  /\ Len(skills.aim.object_strains) = processed
                  /\ skills.rhythm_complexity.note_index = processed

C14_Witness ==
    /\ pc = "evaluated"
    /\ Len(osu_objects) = 3 /\ take = 2
    /\ Len(diff_objects) = 2 /\ processed = 1

(***************************************************************************)
(* Properties of calculate_normalized_hit_error (checked under SpecPerf).  *)
(***************************************************************************)
\* the call that calculate makes for the score of the state
normalized_hit_error_of_state ==
    calculate_normalized_hit_error(
        od(attrs), total_hits(state),
        IF ~using_classic_slider_acc THEN attrs.n_circles + attrs.n_sliders
        ELSE attrs.n_circles,
        state.n300)

\* C15: calculate_normalized_hit_error never fails: it returns the fallback
\* 200 - 10 od when relevant_300_count <= 0 or when Beta cannot be
\* constructed, and for a score state with n300 <= total_hits the Beta
\* parameters are valid: alpha = relevant_300_count >= 1 and
\* beta = 1 + accuracy_hit_objects_count - relevant_300_count
\*      = 1 + total_hits - n300 >= 1, so that only relevant_300_count <= 0
\* leads to the fallback.
C15_HitErrorParametersValid ==
    (Done /\ total_hits(state) > 0) =>
        LET r == normalized_hit_error_of_state
            accuracy_hit_objects_count ==
                IF ~using_classic_slider_acc
                THEN attrs.n_circles + attrs.n_sliders ELSE attrs.n_circles
            relevant_300_count ==
                state.n300 - (total_hits(state) - accuracy_hit_objects_count)
        IN  /\ r.fallback <=> relevant_300_count <= 0
            /\ ~r.fallback =>
                  /\ r.alpha = relevant_300_count /\ r.alpha >= 1
                  /\ r.beta = 1 + total_hits(state) - state.n300
                  /\ r.beta >= 1

C15_Witness ==
    /\ Done /\ total_hits(state) = 2 /\ state.n300 = 2
    /\ using_classic_slider_acc /\ attrs.n_sliders = 1
    /\ ~normalized_hit_error_of_state.fallback
    /\ normalized_hit_error_of_state.alpha = 1
    /\ normalized_hit_error_of_state.beta = 1

C15_FallbackWitness ==
    /\ Done /\ total_hits(state) = 2 /\ state.n300 = 1
    /\ using_classic_slider_acc
    /\ normalized_hit_error_of_state.fallback

(***************************************************************************)
(* Properties of the lazy slider cursor within create_difficulty_objects   *)
(* (checked under SpecObjects).                                            *)
(***************************************************************************)
\* C17: the step that builds the difficulty objects applies
\* compute_slider_cursor_pos once to every hit object, and every run() of
\* that step reads the completed values: a difficulty object whose last
\* object is a slider has travel_dist and jump_dist made from the
\* lazy_travel_dist and lazy_end_pos the hit object has after the step.  No
\* later step touches the hit objects.
C17_LazyCursorBeforeRun ==
    [][/\ (pc = "start" /\ take > 0) =>
             /\ Len(osu_objects') = Len(osu_objects)
             /\ \A i \in 1..Len(osu_objects) :
                   osu_objects'[i] = compute_slider_cursor_pos(osu_objects[i])
             /\ \A k \in 1..Len(diff_objects') :
                   is_slider(osu_objects'[k]) =>
                       /\ diff_objects'[k].travel_dist =
                              osu_objects'[k].lazy_travel_dist * factor
                       /\ diff_objects'[k].jump_dist =
                              Abs(stacked_pos(osu_objects'[k + 1]) * factor
                                  - osu_objects'[k].lazy_end_pos * factor)
       /\ pc # "start" => osu_objects' = osu_objects]_vars

C17_Witness ==
    /\ pc = "process" /\ Len(diff_objects) >= 2
    /\ is_slider(osu_objects[1]) /\ osu_objects[1].lazy_travel_dist = 256
    /\ osu_objects[1].lazy_end_pos = 256
    /\ diff_objects[1].travel_dist = 256 * factor
    /\ is_slider(osu_objects[2]) /\ osu_objects[2].lazy_travel_dist = 256
    /\ diff_objects[2].travel_dist = 256 * factor

(***************************************************************************)
(* Properties of set_distances (checked under SpecObjects).                *)
(***************************************************************************)
\* C20: after run() every difficulty object has
\* jump_dist = raw_jump_dist * factor, and a difficulty object whose hit
\* object is a spinner has raw_jump_dist = 0 and jump_dist = 0.  It fails:
\* only raw_jump_dist is guarded by the spinner test, a spinner away from
\* the cursor gets jump_dist > 0.
C20_Original ==
    \A i \in 1..Len(diff_objects) :
        /\ diff_objects[i].jump_dist = diff_objects[i].raw_jump_dist * factor
        /\ is_spinner(diff_objects[i].base) =>
               (diff_objects[i].raw_jump_dist = 0 /\ diff_objects[i].jump_dist = 0)

\* what the code does establish
C20_JumpDistOfNonSpinners ==
    \A i \in 1..Len(diff_objects) :
        /\ ~is_spinner(diff_objects[i].base) =>
               diff_objects[i].jump_dist = diff_objects[i].raw_jump_dist * factor
        /\ is_spinner(diff_objects[i].base) =>
               /\ diff_objects[i].raw_jump_dist = 0
               /\ diff_objects[i].jump_dist =
                      Abs(stacked_pos(diff_objects[i].base)
                          - get_end_cursor_pos(osu_objects[i])) * factor

C20_SpinnerWitness ==
    /\ Len(diff_objects) >= 1
    /\ is_spinner(diff_objects[1].base) /\ is_circle(osu_objects[1])
    /\ diff_objects[1].raw_jump_dist = 0
    /\ diff_objects[1].jump_dist = 256 * factor

(***************************************************************************)
(* Properties of compute_slider_cursor_pos (checked under SpecSlider).     *)
(***************************************************************************)
\* C18: compute_slider_cursor_pos is idempotent: a second application to a
\* slider leaves lazy_end_pos and lazy_travel_dist as the first application
\* left them.  It fails: lazy_travel_dist is added to, not assigned.
C18_Original ==
    [][(pc = "lazy" /\ processed >= 1) =>
           /\ osu_objects'[1].lazy_end_pos = osu_objects[1].lazy_end_pos
           /\ osu_objects'[1].lazy_travel_dist = osu_objects[1].lazy_travel_dist]_vars

\* what the code does establish: a repeated application keeps lazy_end_pos
\* and the nested objects, and never lowers lazy_travel_dist
C18_EndPosStable ==
    [][(pc = "lazy" /\ processed >= 1) =>
           /\ osu_objects'[1].lazy_end_pos = osu_objects[1].lazy_end_pos
           /\ osu_objects'[1].nested_objects = osu_objects[1].nested_objects
           /\ osu_objects'[1].lazy_travel_dist >= osu_objects[1].lazy_travel_dist]_vars

C18_DoubledWitness ==
    /\ pc = "lazy" /\ processed = 2
    /\ osu_objects[1].pos = 0 /\ osu_objects[1].nested_objects = <<295>>
    /\ osu_objects[1].lazy_end_pos = 256
    /\ osu_objects[1].lazy_travel_dist = 512

\* C19: for a slider without nested objects compute_slider_cursor_pos
\* leaves lazy_end_pos = pos + stack_offset and lazy_travel_dist = 0,
\* whatever the two fields held before.  It fails: the loop body never runs
\* and the two fields keep what they held.
C19_Original ==
    (pc = "lazy" /\ processed >= 1 /\ osu_objects[1].nested_objects = <<>>) =>
        /\ osu_objects[1].lazy_end_pos = stacked_pos(osu_objects[1])
        /\ osu_objects[1].lazy_travel_dist = 0

\* what the code does establish: without nested objects the pass changes
\* nothing
C19_ZeroNestedKeepsFields ==
    [][(pc = "lazy" /\ osu_objects[1].nested_objects = <<>>) =>
           osu_objects' = osu_objects]_vars

C19_KeptWitness ==
    /\ pc = "lazy" /\ processed >= 1
    /\ osu_objects[1].nested_objects = <<>> /\ osu_objects[1].pos = 256
    /\ osu_objects[1].lazy_end_pos = 77 /\ osu_objects[1].lazy_travel_dist = 7

(***************************************************************************)
(* Properties of the skills as a parallel-for (checked under SpecPar).     *)
(***************************************************************************)
\* the skills after the sequential loop of calculate over k objects
RECURSIVE sequential_prefixes(_)
sequential_prefixes(n) ==
    IF n = 0 THEN <<OsuSkills_new(mods, lazer)>>
    ELSE LET before == sequential_prefixes(n - 1)
         IN  Append(before,
                    OsuSkills_process(before[n], diff_objects[n], diff_objects))

sequential_skills ==
    LET prefixes == sequential_prefixes(Len(diff_objects))
    IN  [k \in 0..Len(diff_objects) |-> prefixes[k + 1]]

\* C16: the seven skills share no mutable state.  In every interleaving of
\* per-skill process steps (each skill taking the difficulty objects in
\* increasing idx order) each skill is in the state the sequential loop
\* over OsuSkills::process gives it after the same number of objects, so
\* the final skills are those of the sequential order; and no process step
\* changes the difficulty objects.
C16_SkillsIndependent ==
    pc = "parallel" =>
        /\ LET sequential == sequential_skills
           IN  \A name \in SkillNames :
                   skills[name] =
                       sequential[skill_position(skills, name)][name]
        /\ diff_objects = run_objects(osu_objects, 2, <<>>, clock_rate)

C16_Witness ==
    /\ pc = "parallel"
    /\ skill_position(skills, "rhythm_complexity") = 2
    /\ skill_position(skills, "stamina") = 2
    /\ skill_position(skills, "speed") = 1
    /\ skill_position(skills, "aim") = 0
    /\ skill_position(skills, "raw_aim") = 2
    /\ is_slider(diff_objects[1].base)

C16_FinalWitness ==
    /\ pc = "parallel"
    /\ \A name \in SkillNames :
          skill_position(skills, name) = Len(diff_objects)
    /\ Len(diff_objects) >= 2
    /\ skills = sequential_skills[Len(diff_objects)]

(***************************************************************************)
(* Properties of the times of run() (checked under SpecObjects).           *)
(***************************************************************************)
\* C21: after run() every difficulty object has
\* stream_bpm = 15000 / strain_time for its final strain_time, the one that
\* went through rescale_low_strain_time, also where delta_time is below
\* 50 ms.  It fails: stream_bpm is taken from max(delta_time, 25) before
\* the rescaling.
C21_Original ==
    \A i \in 1..Len(diff_objects) :
        diff_objects[i].stream_bpm = Rat(150000, diff_objects[i].strain_time)

\* what the code does establish
C21_StreamBpmBeforeRescale ==
    \A i \in 1..Len(diff_objects) :
        LET d == diff_objects[i]
        IN  /\ d.stream_bpm = Rat(150000, Max(d.delta_time, MIN_DELTA_TIME))
            /\ d.delta_time >= 500 => d.stream_bpm = Rat(150000, d.strain_time)

C21_StaleWitness ==
    /\ Len(diff_objects) >= 1
    /\ diff_objects[1].delta_time = 0
    /\ diff_objects[1].strain_time = 300
    /\ diff_objects[1].stream_bpm = Rat(150000, 250)

(***************************************************************************)
(* Properties of the reading window of Aim (checked under SpecPar).        *)
(***************************************************************************)
AimNames == {"aim", "raw_aim", "jump_aim", "flow_aim"}

\* the first n difficulty objects that start no earlier than one preempt
\* time before curr, in order
ObjectsWithinPreempt(n, curr) ==
    SelectSeq([i \in 1..n |-> PreemptOsuObject(diff_objects[i])],
              LAMBDA o : o.start_time >= curr.start_time - curr.preempt)

\* C22: for start times that do not decrease, a step of an Aim skill on
\* curr sums the reading density over exactly the objects processed before
\* curr that start at or after curr.start_time - curr.preempt (curr is not
\* among them), and leaves as window exactly the processed objects, curr
\* included and last, that start at or after that time, in processing
\* order.
C22_ReadingWindow ==
    [][\A name \in AimNames :
           skill_position(skills', name) = skill_position(skills, name) + 1 =>
               LET n == skill_position(skills, name)
                   curr == diff_objects[n + 1]
               IN  /\ reading_density_objects(
                          skills[name].preempt_hit_objects, curr)
                          = ObjectsWithinPreempt(n, curr)
                   /\ skills'[name].preempt_hit_objects
                          = ObjectsWithinPreempt(n + 1, curr)
                   /\ skills'[name].preempt_hit_objects[
                          Len(skills'[name].preempt_hit_objects)]
                          = PreemptOsuObject(curr)
                   /\ Len(skills'[name].preempt_hit_objects) <= n + 1]_vars

\* the map of circles one preempt time apart: the object before curr
\* starts exactly at curr.start_time - curr.preempt and stays
C22_Witness ==
    /\ pc = "parallel"
    /\ skill_position(skills, "aim") = 2
    /\ diff_objects[2].start_time - diff_objects[2].preempt
           = diff_objects[1].start_time
    /\ skills.aim.preempt_hit_objects
           = <<PreemptOsuObject(diff_objects[1]), PreemptOsuObject(diff_objects[2])>>
    /\ skill_position(skills, "jump_aim") = 1
    /\ skills.jump_aim.preempt_hit_objects = <<PreemptOsuObject(diff_objects[1])>>

\* the map of circles two preempt times apart: the object before curr is
\* evicted
C22_EvictedWitness ==
    /\ pc = "parallel"
    /\ skill_position(skills, "aim") = 2
    /\ diff_objects[1].start_time
           < diff_objects[2].start_time - diff_objects[2].preempt
    /\ skills.aim.preempt_hit_objects = <<PreemptOsuObject(diff_objects[2])>>

\* the number of difficulty objects that every Aim skill has processed
AimCommonPrefix ==
    Min(Min(skill_position(skills, "aim"), skill_position(skills, "raw_aim")),
        Min(skill_position(skills, "jump_aim"),
            skill_position(skills, "flow_aim")))

C25_JumpOnlyWitness ==
    /\ pc = "parallel"
    /\ AimCommonPrefix >= 1
    /\ Aim_evaluate_diff_of(diff_objects[1], "Jump") = 1
    /\ Aim_evaluate_diff_of(diff_objects[1], "Flow") = 0
    /\ skills.aim.object_strains[1] = 1

(***************************************************************************)
(* Properties of RhythmComplexity (checked under SpecRhythm).              *)
(***************************************************************************)
\* |a - ratio * b| < 5 ms, ratio in thousandths, a and b in tenths of ms
WithinFiveMs(ratio, a, b) == Abs(1000 * a - ratio * b) < 50 * 1000

\* C23: the offbeat state machine.  When an accuracy object whose
\* predecessor is a circle is processed, is_previous_offbeat becomes true
\* if curr.gap_time is within 5 ms of 0.667 prev.gap_time and
\* curr.flow > 0.8, becomes the negation of its old value if curr.gap_time
\* is within 5 ms of prev.gap_time and curr.flow > 0.8, and becomes false
\* otherwise.  It is false after a spinner, after a slider when slider
\* heads do not count for accuracy, and after an object whose predecessor
\* is a spinner.
C23_OffbeatStateMachine ==
    [][processed' = processed + 1 =>
           LET sk == skills.rhythm_complexity
               curr == diff_objects[processed + 1]
               last == osu_objects[processed + 1]
               was == sk.is_previous_offbeat
               now == skills'.rhythm_complexity.is_previous_offbeat
               accuracy_object ==
                   is_circle(curr.base) \/ (sk.is_slider_acc /\ is_slider(curr.base))
           IN  /\ (accuracy_object /\ curr.idx >= 1 /\ is_circle(last)) =>
                      LET prev == diff_objects[processed]
                      IN  now = (IF WithinFiveMs(667, curr.gap_time, prev.gap_time)
                                    /\ curr.flow = "1"
                                 THEN TRUE
                                 ELSE IF WithinFiveMs(1000, curr.gap_time, prev.gap_time)
                                         /\ curr.flow = "1"
                                 THEN ~was
                                 ELSE FALSE)
               /\ is_spinner(curr.base) => now = FALSE
               /\ (is_slider(curr.base) /\ ~sk.is_slider_acc) => now = FALSE
               /\ is_spinner(last) => now = FALSE]_vars

\* a double, then an equal gap at high flow: false, true, false
C23_Witness ==
    /\ pc = "rhythm" /\ processed = 3
    /\ \A i \in 1..4 : is_circle(osu_objects[i])
    /\ diff_objects[1].gap_time = 900
    /\ diff_objects[2].gap_time = 600 /\ diff_objects[2].flow = "1"
    /\ diff_objects[3].gap_time = 600 /\ diff_objects[3].flow = "1"
    /\ ~skills.rhythm_complexity.is_previous_offbeat
    /\ skills.rhythm_complexity.prev_doubles = <<-1>>

\* a spinner resets a set is_previous_offbeat
C23_ResetWitness ==
    /\ pc = "rhythm" /\ processed = 3
    /\ is_spinner(diff_objects[3].base)
    /\ process_objects(OsuSkills_new(mods, lazer), diff_objects, 2)
           .rhythm_complexity.is_previous_offbeat
    /\ ~skills.rhythm_complexity.is_previous_offbeat

\* the skills once the first n difficulty objects are processed
skills_after(n) == process_objects(OsuSkills_new(mods, lazer), diff_objects, n)

\* whether processing the i-th difficulty object from the rhythm skill sk
\* takes the offbeat branch of calc_circle_to_circle_rhythm_bonus
offbeat_branch_taken(sk, i) ==
    /\ i >= 2
    /\ is_circle(diff_objects[i].base)
           \/ (sk.is_slider_acc /\ is_slider(diff_objects[i].base))
    /\ is_circle(diff_objects[i - 1].base)
    /\ sk.is_previous_offbeat
    /\ 1000 * (diff_objects[i].gap_time + 50)
           > 1500 * diff_objects[i - 1].gap_time

\* the lists of up to two earlier doubles before note n: -1 or the index
\* of an earlier note
PrevDoublesUpTo(n) ==
    UNION {[1..k -> {-1} \cup 1..(n - 1)] : k \in 0..2}

\* C27: when the offbeat branch fires (is_previous_offbeat set and
\* curr.gap_time + 5 > 1.5 prev.gap_time), the gap times are at least 30 ms,
\* curr.gap_time is within 5 ms of neither 0.667 prev.gap_time nor
\* prev.gap_time, and is_previous_offbeat is false afterwards; so the
\* object processed just before did not take the branch.  The value the
\* branch pushes to prev_doubles is note_index, at least 1, and the bonus
\* it awards lies in (0, 5], for every list of earlier doubles.
C27_OffbeatBranch ==
    [][(processed' = processed + 1
        /\ offbeat_branch_taken(skills.rhythm_complexity, processed + 1)) =>
           LET sk == skills.rhythm_complexity
               after == skills'.rhythm_complexity
               curr == diff_objects[processed + 1]
               prev == diff_objects[processed]
               bonus == offbeat_rhythm_bonus(sk.prev_doubles, sk.note_index)
           IN  /\ curr.gap_time >= 300 /\ prev.gap_time >= 300
               /\ ~WithinFiveMs(667, curr.gap_time, prev.gap_time)
               /\ ~WithinFiveMs(1000, curr.gap_time, prev.gap_time)
               /\ ~after.is_previous_offbeat
               /\ ~offbeat_branch_taken(
                       skills_after(processed - 1).rhythm_complexity, processed)
               /\ (processed + 2 <= Len(diff_objects)) =>
                       ~offbeat_branch_taken(after, processed + 2)
               /\ after.prev_doubles = Append(sk.prev_doubles, sk.note_index)
               /\ sk.note_index >= 1
               /\ \A i \in 1..Len(after.prev_doubles) :
                       after.prev_doubles[i] = -1
                       \/ (after.prev_doubles[i] >= 1
                           /\ after.prev_doubles[i] <= sk.note_index)
               /\ RatLt(RatInt(0), bonus) /\ RatLe(bonus, RatInt(5))
               /\ \A pd \in PrevDoublesUpTo(sk.note_index) :
                       /\ RatLt(RatInt(0), offbeat_rhythm_bonus(pd, sk.note_index))
                       /\ RatLe(offbeat_rhythm_bonus(pd, sk.note_index), RatInt(5))
               /\ after.difficulty_total_slider_acc = 1]_vars

\* circles 60, 60 and 90 ms apart: the third gap takes the offbeat branch
C27_Witness ==
    /\ pc = "rhythm" /\ processed = 3
    /\ \A i \in 1..4 : is_circle(osu_objects[i])
    /\ diff_objects[2].gap_time = 600 /\ diff_objects[3].gap_time = 900
    /\ offbeat_branch_taken(skills_after(2).rhythm_complexity, 3)
    /\ skills.rhythm_complexity.prev_doubles = <<2>>
    /\ ~skills.rhythm_complexity.is_previous_offbeat

\* the number of the first n difficulty objects whose base is a circle, or
\* a slider too if sliders is set
accuracy_objects_among(n, sliders) ==
    Cardinality({i \in 1..n :
                     is_circle(diff_objects[i].base)
                     \/ (sliders /\ is_slider(diff_objects[i].base))})

C28_NoAccuracyObjectWitness ==
    /\ pc = "rhythm" /\ processed = 2
    /\ skills.rhythm_complexity.note_index = 2
    /\ skills.rhythm_complexity.accuracy_object_count = 0

(***************************************************************************)
(* Properties of DifficultyValues::eval (checked under Spec).              *)
(***************************************************************************)
\* C24: each stored difficult strain count (aim, jump aim, flow aim, speed,
\* stamina) is count_top_weighted_strains of that skill's object strains
\* with that skill's own difficulty value as the target.  It fails for the
\* jump aim count, whose target is the difficulty value of raw_aim.
C24_Original ==
    Evaluated =>
        \A name \in {"aim", "jump_aim", "flow_aim", "speed", "stamina"} :
            difficult_strain_count_targets(skills)[name]
                = cloned_difficulty_value(skills[name])

\* what the code does establish
C24_OwnTargetExceptJumpAim ==
    Evaluated =>
        /\ \A name \in {"aim", "flow_aim", "speed", "stamina"} :
              difficult_strain_count_targets(skills)[name]
                  = cloned_difficulty_value(skills[name])
        /\ difficult_strain_count_targets(skills).jump_aim
               = cloned_difficulty_value(skills.raw_aim)

\* a stream of stacked circles: no jump aim, but raw aim from its flow aim
C24_ForeignTargetWitness ==
    /\ Evaluated
    /\ cloned_difficulty_value(skills.jump_aim) = 0
    /\ cloned_difficulty_value(skills.raw_aim) = 1
    /\ difficult_strain_count_targets(skills).jump_aim = 1

(***************************************************************************)
(* Properties of the flow pattern weight (checked under SpecAim).          *)
(***************************************************************************)
\* the difficulty object before the i-th, <<>> for None
previous_of(i) == IF i > 1 THEN diff_objects[i - 1] ELSE <<>>

\* C26: every angle that set_distances has stored is an absolute value, at
\* least 0, so no evaluation of calc_flow_pattern_weight takes the
\* sign-change branch, and angle_bonus is non-zero only through the branch
\* of a current angle smaller than the previous one.
C26_SignChangeBranchDead ==
    pc = "aim" =>
        \A i \in 1..processed :
            LET curr == diff_objects[i]
                prev == previous_of(i)
            IN  /\ ~is_null_or_nan(curr.angle) => curr.angle[1] >= 0
                /\ (prev # <<>> /\ ~is_null_or_nan(prev.angle)) =>
                       prev.angle[1] >= 0
                /\ calc_flow_angle_bonus_branch(curr, prev) # "sign_change"
                /\ calc_flow_angle_bonus(curr, prev) # 0 =>
                       /\ calc_flow_angle_bonus_branch(curr, prev) = "smaller"
                       /\ curr.angle[1] < prev.angle[1]

\* a reversal after a straight continuation, at a flow above 0: the flow
\* aim value is taken with an angle_bonus from the smaller-angle branch
C26_SmallerAngleWitness ==
    /\ pc = "aim"
    /\ processed = 3
    /\ diff_objects[2].angle = <<180>>
    /\ diff_objects[3].angle = <<0>>
    /\ diff_objects[3].flow # "0"
    /\ calc_flow_angle_bonus_branch(diff_objects[3], diff_objects[2]) = "smaller"
    /\ calc_flow_angle_bonus(diff_objects[3], diff_objects[2]) = 1
    /\ skills.flow_aim.object_strains[3] = 1

\* a straight continuation after a reversal: both angles present, no bonus
C26_NoBonusWitness ==
    /\ pc = "aim"
    /\ processed = 3
    /\ diff_objects[2].angle = <<0>>
    /\ diff_objects[3].angle = <<180>>
    /\ calc_flow_angle_bonus(diff_objects[3], diff_objects[2]) = 0

\* the speed rating before the transform of the mods
untransformed_speed_rating(sk) == SgnPowf(cloned_difficulty_value(sk.speed))

\* C29: under RX only the speed rating is zeroed: the stamina rating, the
\* stamina difficult strain count and pp_stamina are what they are without
\* the transform of the speed rating, so the tapping term
\* max(speed, stamina) of the star rating and of the total pp is the
\* stamina value, non-zero whenever the stamina rating is non-zero.
C29_RelaxKeepsStamina ==
    (Rx(mods) /\ Evaluated) =>
        /\ attrs.speed = 0
        /\ attrs.stamina = SgnPowf(cloned_difficulty_value(skills.stamina))
        /\ pc = "evaluated" =>
               LET without == eval(attrs, mods \ {"RX"}, skills)
               IN  /\ attrs.stamina = without.stamina
                   /\ attrs.stamina_difficult_strain_count
                          = without.stamina_difficult_strain_count
        /\ attrs.stamina >= 0
        /\ tapping_rating(attrs.speed, attrs.stamina) = attrs.stamina
        /\ attrs.stars = SgnPowf(SgnAdd(attrs.aim, attrs.stamina))
        /\ attrs.stamina # 0 => attrs.stars # 0
        /\ (Done /\ total_hits(state) > 0) =>
               /\ perf.pp_speed = 0
               /\ perf.pp_stamina
                      = calculate([attrs EXCEPT
                                      !.speed = untransformed_speed_rating(skills)],
                                  mods, state, using_classic_slider_acc).pp_stamina
               /\ SgnMax(perf.pp_speed, perf.pp_stamina) = perf.pp_stamina
               /\ perf.pp = total_value(perf.pp_aim, perf.pp_stamina,
                                        perf.pp_stamina, perf.pp_acc,
                                        mods_multiplier(attrs, mods, state))
               /\ attrs.stamina # 0 => perf.pp_stamina # 0

\* RX on a map whose speed and stamina skills both have strain: the speed
\* rating is 0, the stamina rating and pp_stamina are not
C29_Witness ==
    /\ Done /\ Rx(mods) /\ total_hits(state) > 0
    /\ untransformed_speed_rating(skills) = 1
    /\ attrs.speed = 0 /\ perf.pp_speed = 0
    /\ attrs.stamina = 1 /\ attrs.stamina_difficult_strain_count = 1
    /\ perf.pp_stamina = 1
    /\ attrs.stars = 1

\* RX on stacked objects far apart: no aim, the star rating is the stamina's
C29_StaminaOnlyWitness ==
    /\ Evaluated /\ Rx(mods)
    /\ attrs.aim = 0 /\ attrs.speed = 0
    /\ attrs.stamina = 1 /\ attrs.stars = 1

(***************************************************************************)
(* Properties of the Speed and Stamina evaluators (checked under Spec).    *)
(***************************************************************************)
\* C30: the Speed and Stamina evaluators never divide by zero: for the
\* difficulty object the skills have just processed,
\* last_two_strain_time is infinite, for the first difficulty object only,
\* or at least 60 ms, so ms - 20 is at least 10 for ms =
\* last_two_strain_time / 2.  For the first difficulty object the Stamina
\* evaluation is 0 and the Speed evaluation is 0.005 flow.
C30_EvaluatorsDivideSafely ==
    (pc = "process" /\ processed >= 1) =>
        LET curr == diff_objects[processed]
        IN  /\ curr.last_two_strain_time = Infinity
                   \/ curr.last_two_strain_time >= 600
            /\ (curr.last_two_strain_time = Infinity) <=> (curr.idx = 0)
            /\ evaluator_divisor(curr) >= 200
            /\ Speed_evaluate_diff_of(curr) # NaN
            /\ Stamina_evaluate_diff_of(curr) # NaN
            /\ skills.speed.object_strains[processed] # NaN
            /\ skills.stamina.object_strains[processed] # NaN
            /\ curr.idx = 0 =>
                   /\ Stamina_evaluate_diff_of(curr) = 0
                   /\ curr.flow \in {"0", "1"}
                   /\ Speed_evaluate_at_infinity(curr.flow)
                          = (IF curr.flow = "0" THEN RatInt(0)
                             ELSE Rat(5, 1000))
                   /\ Speed_evaluate_diff_of(curr)
                          = SgnOf(Speed_evaluate_at_infinity(curr.flow)[1])
                   /\ skills.stamina.object_strains[1] = 0
                   /\ skills.speed.object_strains[1]
                          = Speed_evaluate_diff_of(curr)
            /\ curr.idx > 0 =>
                   /\ Speed_evaluate_diff_of(curr) = 1
                   /\ Stamina_evaluate_diff_of(curr) = 1

\* three objects 36 ms apart at a clock rate of 3/2: 48 ms between the
\* first and the third, raised to 50 ms and rescaled to 60 ms, ms - 20 = 10
C30_Witness ==
    /\ pc = "process" /\ processed = 2
    /\ clock_rate = <<3, 2>>
    /\ diff_objects[1].last_two_strain_time = Infinity
    /\ diff_objects[2].last_two_strain_time = 600
    /\ evaluator_divisor(diff_objects[2]) = 200
    /\ skills.stamina.object_strains = <<0, 1>>

\* a first difficulty object at a flow of 1: the Speed evaluation is 0.005
C30_FirstObjectWitness ==
    /\ pc = "process" /\ processed >= 1
    /\ diff_objects[1].flow = "1"
    /\ skills.speed.object_strains[1] = 1
    /\ skills.stamina.object_strains[1] = 0

====
